---- MODULE Spec2Model ----
(***************************************************************************)
(* A model of the bronzebeard RISC-V assembler (bronzebeard/asm.py): the   *)
(* relocation arithmetic (sign_extend, relocate_hi, relocate_lo) and the   *)
(* multi-pass lowering pipeline of assemble().                             *)
(***************************************************************************)
EXTENDS Integers, Sequences, FiniteSets, TLC

VARIABLES
    arith,       \* inputs and results of the helpers and encoders applied on their own
    pc,          \* the pass assemble() is about to run
    src,         \* the parsed item list handed to the first pass
    compress,    \* assemble(compress=...)
    items,       \* the item list the running pass reads
    new_items,   \* the list the running pass has built so far
    idx,         \* number of items the running pass has consumed
    position,    \* the running pass's byte position
    constants,   \* constants environment (name -> integer)
    labels,      \* labels environment (name -> byte offset)
    program,     \* the bytes assemble() returns
    err          \* the exception that ended assemble(), or "none"

vars == <<arith, pc, src, compress, items, new_items, idx, position,
          constants, labels, program, err>>

pipe_vars == <<pc, src, compress, items, new_items, idx, position,
               constants, labels, program, err>>

-----------------------------------------------------------------------------
(***************************************************************************)
(* Python integers are unbounded.  An integer v is held as two limbs,      *)
(* v = q * 2^12 + r with 0 <= r < 2^12, so that 32-bit and wider values    *)
(* are computed exactly.                                                   *)
(***************************************************************************)
Limb == 2^12

W(v) == [q |-> v \div Limb, r |-> v % Limb]

WNorm(q, r) == [q |-> q + (r \div Limb), r |-> r % Limb]

WAdd(a, b) == WNorm(a.q + b.q, a.r + b.r)

WSub(a, b) == WNorm(a.q - b.q, a.r - b.r)

WLt(a, b) == a.q < b.q \/ (a.q = b.q /\ a.r < b.r)

WLe(a, b) == a.q < b.q \/ (a.q = b.q /\ a.r <= b.r)

\* 2^k as an integer
WPow2(k) == IF k >= 12 THEN [q |-> 2^(k - 12), r |-> 0] ELSE [q |-> 0, r |-> 2^k]

\* a & (2^k - 1)
WLowBits(a, k) ==
    IF k >= 12 THEN [q |-> a.q % 2^(k - 12), r |-> a.r]
               ELSE [q |-> 0, r |-> a.r % 2^k]

\* a & (1 << k)
WBit(a, k) ==
    IF k >= 12 THEN [q |-> ((a.q \div 2^(k - 12)) % 2) * 2^(k - 12), r |-> 0]
               ELSE [q |-> 0, r |-> ((a.r \div 2^k) % 2) * 2^k]

\* a >> 12
WShr12(a) == W(a.q)

\* a % 2 == 0
WEven(a) == a.r % 2 = 0

\* the integer as a plain number, for a that fits one machine word
ToInt(a) == a.q * Limb + a.r

\* ctypes.c_int32(v).value: v wrapped to a signed 32-bit value
c_int32(v) ==
    LET m == WLowBits(v, 32)
    IN  IF m.q >= 2^19 THEN [q |-> m.q - 2^20, r |-> m.r] ELSE m

-----------------------------------------------------------------------------
(* asm.py: sign_extend, relocate_hi, relocate_lo                           *)

sign_extend_nosign(value, bits) == WLowBits(value, bits - 1)

sign_extend(value, bits) ==
    WSub(WLowBits(value, bits - 1), WBit(value, bits - 1))

relocate_hi_noround(imm) == sign_extend(WLowBits(WShr12(imm), 20), 20)

relocate_hi(imm) ==
    LET imm2 == IF WBit(imm, 11) # W(0) THEN WAdd(imm, WPow2(12)) ELSE imm
    IN  sign_extend(WLowBits(WShr12(imm2), 20), 20)

relocate_lo_unsigned(imm) == WLowBits(imm, 12)

relocate_lo(imm) == sign_extend(WLowBits(imm, 12), 12)

-----------------------------------------------------------------------------
(***************************************************************************)
(* Tokens.  A token is an identifier-like piece of text (a name, a         *)
(* register, "%offset", a parenthesis) or an integer literal with the      *)
(* notation it was written in and its value.                               *)
(***************************************************************************)
Id(s) == [t |-> "id", s |-> s]

Num(form, v) == [t |-> "num", form |-> form, val |-> v]

Dec(n) == Num("dec", W(n))

TokIs(tok, text) == tok.t = "id" /\ tok.s = text

\* a token's text as a key of an environment: the text of an integer literal
\* is no name, so it is a key of none
TokText(tok) == IF tok.t = "id" THEN tok.s ELSE "<literal>"

\* the values substituted for tokens are integers, held as two limbs
IsTok(x) == "t" \in DOMAIN x

EmptyMap == [n \in {} |-> W(0)]

REGISTERS ==
    [n \in 0..31 |-> n]

RegNames ==
    <<"zero", "ra", "sp", "gp", "tp", "t0", "t1", "t2", "s0", "s1",
      "a0", "a1", "a2", "a3", "a4", "a5", "a6", "a7",
      "s2", "s3", "s4", "s5", "s6", "s7", "s8", "s9", "s10", "s11",
      "t3", "t4", "t5", "t6">>

XNames ==
    <<"x0", "x1", "x2", "x3", "x4", "x5", "x6", "x7", "x8", "x9",
      "x10", "x11", "x12", "x13", "x14", "x15", "x16", "x17", "x18", "x19",
      "x20", "x21", "x22", "x23", "x24", "x25", "x26", "x27", "x28", "x29",
      "x30", "x31">>

\* the string keys of REGISTERS that are names: 'x5', 't0', 'fp'
REGISTER_NAMES ==
    [s \in {XNames[i] : i \in 1..32} \cup {RegNames[i] : i \in 1..32} \cup {"fp"} |->
        IF s = "fp" THEN 8
        ELSE IF \E i \in 1..32 : XNames[i] = s
             THEN (CHOOSE i \in 1..32 : XNames[i] = s) - 1
             ELSE (CHOOSE i \in 1..32 : RegNames[i] = s) - 1]

\* the result of a call that may raise: a value, or the exception's type
Ok(v) == [ok |-> TRUE, val |-> v]

Raise(exc) == [ok |-> FALSE, exc |-> exc]

lookup_register(reg) ==
    IF IsTok(reg)
    THEN IF reg.t = "num"
         THEN \* int(reg, base=0) succeeds
              IF reg.val.q = 0 /\ reg.val.r \in DOMAIN REGISTERS
              THEN Ok(REGISTERS[reg.val.r]) ELSE Raise("ValueError")
         ELSE IF reg.s \in DOMAIN REGISTER_NAMES
              THEN Ok(REGISTER_NAMES[reg.s]) ELSE Raise("ValueError")
    ELSE IF reg.q = 0 /\ reg.r \in DOMAIN REGISTERS
         THEN Ok(REGISTERS[reg.r]) ELSE Raise("ValueError")

\* lookup_register(reg, compressed=True): one of x8..x15, as its 3-bit number
lookup_register_compressed(reg) ==
    LET g == lookup_register(reg)
    IN  IF ~g.ok THEN g
        ELSE IF g.val < 8 \/ g.val > 15 THEN Raise("ValueError")
        ELSE Ok(g.val - 8)

-----------------------------------------------------------------------------
(***************************************************************************)
(* Expressions (class Expr and its subclasses).  The text of an Arithmetic *)
(* expression is kept as its token list; the programs considered here use  *)
(* expressions of one token, an integer literal or a name.                 *)
(***************************************************************************)
Arithmetic(expr) == [op |-> "Arithmetic", expr |-> expr]

Position(reference, expr) == [op |-> "Position", reference |-> reference, expr |-> expr]

Offset(reference) == [op |-> "Offset", reference |-> reference]

Hi(expr) == [op |-> "Hi", expr |-> expr]

Lo(expr) == [op |-> "Lo", expr |-> expr]

\* the bool True where a mapping is expected (cli_main hands args.compress to
\* assemble as its constants): it is no mapping, and it is kept as a value
\* that no environment of names equals
PyTrue == [n \in {"<True>"} |-> [q |-> 0, r |-> 1]]

\* collections.ChainMap(a, b): a lookup finds the name in a first, then in b;
\* with a no mapping every lookup raises TypeError, whatever b holds
ChainMap(a, b) ==
    IF a = PyTrue THEN PyTrue
    ELSE [n \in DOMAIN a \cup DOMAIN b |-> IF n \in DOMAIN a THEN a[n] ELSE b[n]]

\* a mapping of plain numbers, seen as a mapping of integers
AsInts(m) == [n \in DOMAIN m |-> W(m[n])]

RECURSIVE ArithmeticEval(_, _)
\* Arithmetic.eval: eval(self.expr, {'__builtins__': None}, env); whatever the
\* lookup of a name raises is reported as AssemblerError; the expressions are
\* a literal, a name, and the difference of two of these
ArithmeticEval(e, env) ==
    IF Len(e.expr) = 1 /\ e.expr[1].t = "num" THEN Ok(e.expr[1].val)
    ELSE IF Len(e.expr) = 1 /\ TokText(e.expr[1]) \in DOMAIN env
         THEN Ok(env[TokText(e.expr[1])])
    ELSE IF Len(e.expr) = 3 /\ TokIs(e.expr[2], "-")
         THEN LET a == ArithmeticEval(Arithmetic(<<e.expr[1]>>), env)
                  b == ArithmeticEval(Arithmetic(<<e.expr[3]>>), env)
              IN  IF a.ok /\ b.ok THEN Ok(WSub(a.val, b.val))
                  ELSE Raise("AssemblerError")
    ELSE Raise("AssemblerError")

OffsetEvalSwapped(e, pos, env) ==
    IF env = PyTrue THEN Raise("TypeError")
    ELSE IF e.reference \in DOMAIN env
    THEN Ok(WSub(W(pos), env[e.reference]))
    ELSE Raise("KeyError")

\* Offset.eval: env[self.reference] - position
OffsetEval(e, pos, env) ==
    IF env = PyTrue THEN Raise("TypeError")
    ELSE IF e.reference \in DOMAIN env
    THEN Ok(WSub(env[e.reference], W(pos)))
    ELSE Raise("KeyError")

RECURSIVE Eval(_, _, _)
\* Expr.eval(position, env, line)
Eval(e, pos, env) ==
    CASE e.op = "Arithmetic" -> ArithmeticEval(e, env)
      [] e.op = "Position" ->
            IF env = PyTrue THEN Raise("TypeError")
            ELSE IF e.reference \notin DOMAIN env THEN Raise("KeyError")
            ELSE LET base == Eval(e.expr, pos, env)
                 IN  IF base.ok THEN Ok(WAdd(base.val, env[e.reference])) ELSE base
      [] e.op = "Offset" -> OffsetEval(e, pos, env)
      [] e.op = "Hi" ->
            LET value == Eval(e.expr, pos, env)
            IN  IF value.ok THEN Ok(relocate_hi(value.val)) ELSE value
      [] e.op = "Lo" ->
            LET value == Eval(e.expr, pos, env)
            IN  IF value.ok THEN Ok(relocate_lo(value.val)) ELSE value

\* the tokens of imm between positions a and b
Toks(imm, a, b) == SubSeq(imm, a, b)

RECURSIVE parse_immediate(_)
parse_immediate(imm) ==
    LET head == imm[1]
        paren == Len(imm) >= 2 /\ TokIs(imm[2], "(")
    IN  CASE TokIs(head, "%position") ->
                IF paren
                THEN Position(TokText(imm[3]), Arithmetic(Toks(imm, 4, Len(imm) - 1)))
                ELSE Position(TokText(imm[2]), Arithmetic(Toks(imm, 3, Len(imm))))
          [] TokIs(head, "%offset") ->
                IF paren THEN Offset(TokText(imm[3])) ELSE Offset(TokText(imm[2]))
          [] TokIs(head, "%hi") ->
                IF paren THEN Hi(parse_immediate(Toks(imm, 3, Len(imm) - 1)))
                         ELSE Hi(parse_immediate(Toks(imm, 2, Len(imm))))
          [] TokIs(head, "%lo") ->
                IF paren THEN Lo(parse_immediate(Toks(imm, 3, Len(imm) - 1)))
                         ELSE Lo(parse_immediate(Toks(imm, 2, Len(imm))))
          [] OTHER -> Arithmetic(imm)

-----------------------------------------------------------------------------
(***************************************************************************)
(* Items (class Item and its subclasses).  Every item carries the source   *)
(* line it was parsed from.  Bytes are held as runs: [b |-> byte, n |->    *)
(* count] stands for n copies of byte b.                                   *)
(***************************************************************************)
Constant(line, name, expr) == [kind |-> "Constant", line |-> line, name |-> name, expr |-> expr]

Label(line, name) == [kind |-> "Label", line |-> line, name |-> name]

String(line, value) == [kind |-> "String", line |-> line, value |-> value]

Sequence(line, name, values) ==
    [kind |-> "Sequence", line |-> line, name |-> name, values |-> values]

Pack(line, fmt, imm) == [kind |-> "Pack", line |-> line, fmt |-> fmt, imm |-> imm]

ShorthandPack(line, name, imm) ==
    [kind |-> "ShorthandPack", line |-> line, name |-> name, imm |-> imm]

Align(line, alignment) == [kind |-> "Align", line |-> line, alignment |-> alignment]

Blob(line, data) == [kind |-> "Blob", line |-> line, data |-> data]

PseudoInstruction(line, name, args) ==
    [kind |-> "PseudoInstruction", line |-> line, name |-> name, args |-> args]

RTypeInstruction(line, name, rd, rs1, rs2) ==
    [kind |-> "RTypeInstruction", line |-> line, name |-> name,
     rd |-> rd, rs1 |-> rs1, rs2 |-> rs2]

ITypeInstruction(line, name, rd, rs1, imm, is_auipc_jump) ==
    [kind |-> "ITypeInstruction", line |-> line, name |-> name,
     rd |-> rd, rs1 |-> rs1, imm |-> imm, is_auipc_jump |-> is_auipc_jump]

STypeInstruction(line, name, rs1, rs2, imm) ==
    [kind |-> "STypeInstruction", line |-> line, name |-> name,
     rs1 |-> rs1, rs2 |-> rs2, imm |-> imm]

BTypeInstruction(line, name, rs1, rs2, imm) ==
    [kind |-> "BTypeInstruction", line |-> line, name |-> name,
     rs1 |-> rs1, rs2 |-> rs2, imm |-> imm]

UTypeInstruction(line, name, rd, imm) ==
    [kind |-> "UTypeInstruction", line |-> line, name |-> name, rd |-> rd, imm |-> imm]

JTypeInstruction(line, name, rd, imm) ==
    [kind |-> "JTypeInstruction", line |-> line, name |-> name, rd |-> rd, imm |-> imm]

FenceInstruction(line, name, succ, pred) ==
    [kind |-> "FenceInstruction", line |-> line, name |-> name, succ |-> succ, pred |-> pred]

CRTypeInstruction(line, name, rd_rs1, rs2) ==
    [kind |-> "CRTypeInstruction", line |-> line, name |-> name,
     rd_rs1 |-> rd_rs1, rs2 |-> rs2]

CRJTypeInstruction(line, name, rd_rs1) ==
    [kind |-> "CRJTypeInstruction", line |-> line, name |-> name, rd_rs1 |-> rd_rs1]

CITypeInstruction(line, name, rd_rs1, imm) ==
    [kind |-> "CITypeInstruction", line |-> line, name |-> name,
     rd_rs1 |-> rd_rs1, imm |-> imm]

CIATypeInstruction(line, name, imm) ==
    [kind |-> "CIATypeInstruction", line |-> line, name |-> name, imm |-> imm]

CSSTypeInstruction(line, name, rs2, imm) ==
    [kind |-> "CSSTypeInstruction", line |-> line, name |-> name, rs2 |-> rs2, imm |-> imm]

CIWTypeInstruction(line, name, rd, imm) ==
    [kind |-> "CIWTypeInstruction", line |-> line, name |-> name, rd |-> rd, imm |-> imm]

CLTypeInstruction(line, name, rd, rs1, imm) ==
    [kind |-> "CLTypeInstruction", line |-> line, name |-> name,
     rd |-> rd, rs1 |-> rs1, imm |-> imm]

CSTypeInstruction(line, name, rs1, rs2, imm) ==
    [kind |-> "CSTypeInstruction", line |-> line, name |-> name,
     rs1 |-> rs1, rs2 |-> rs2, imm |-> imm]

CBTypeInstruction(line, name, rs1, imm) ==
    [kind |-> "CBTypeInstruction", line |-> line, name |-> name, rs1 |-> rs1, imm |-> imm]

CINTypeInstruction(line, name) == [kind |-> "CINTypeInstruction", line |-> line, name |-> name]

CJTypeInstruction(line, name, imm) ==
    [kind |-> "CJTypeInstruction", line |-> line, name |-> name, imm |-> imm]

\* the subclasses of CompressedInstruction
CompressedKinds ==
    {"CRTypeInstruction", "CRJTypeInstruction", "CITypeInstruction", "CIATypeInstruction",
     "CINTypeInstruction", "CSSTypeInstruction", "CIWTypeInstruction", "CLTypeInstruction",
     "CSTypeInstruction", "CBTypeInstruction", "CJTypeInstruction"}

\* the subclasses of Instruction (PseudoInstruction is one of them)
InstructionKinds ==
    {"PseudoInstruction", "RTypeInstruction", "ITypeInstruction", "STypeInstruction",
     "BTypeInstruction",
     "UTypeInstruction", "JTypeInstruction", "FenceInstruction"} \cup CompressedKinds

\* isinstance(item, Instruction)
IsInstruction(item) == item.kind \in InstructionKinds

\* number of bytes in a run list
RECURSIVE DataLen(_)
DataLen(data) == IF data = <<>> THEN 0 ELSE Head(data).n + DataLen(Tail(data))

\* Sequence.size's and ShorthandPack.size's tables
SequenceSizes == [bytes |-> 1, shorts |-> 2, ints |-> 4, longs |-> 4, longlongs |-> 8]

ShorthandSizes == [db |-> 1, dh |-> 2, dw |-> 4, dd |-> 8]

\* struct.calcsize(fmt) for the formats transform_shorthand_packs builds
calcsize(fmt) ==
    CASE fmt \in {"<B", "<b"} -> 1
      [] fmt \in {"<H", "<h"} -> 2
      [] fmt \in {"<I", "<i"} -> 4
      [] fmt \in {"<Q", "<q"} -> 8

\* Align.size without the case of a position that is aligned already
AlignSizeFull(item, pos) == item.alignment - (pos % item.alignment)

\* Align.size
AlignSize(item, pos) ==
    LET padding == item.alignment - (pos % item.alignment)
    IN  IF padding = item.alignment THEN 0 ELSE padding

\* PseudoInstruction.size
PseudoSize(item) == IF item.name \in {"li", "call", "tail"} THEN 8 ELSE 4

\* item.size(position)
size(item, pos) ==
    CASE item.kind \in {"Constant", "Label"} -> 0
      [] item.kind = "String" -> DataLen(item.value)
      [] item.kind = "Sequence" -> SequenceSizes[item.name] * Len(item.values)
      [] item.kind = "Pack" -> calcsize(item.fmt)
      [] item.kind = "ShorthandPack" -> ShorthandSizes[item.name]
      [] item.kind = "Align" -> AlignSize(item, pos)
      [] item.kind = "Blob" -> DataLen(item.data)
      [] item.kind = "PseudoInstruction" -> PseudoSize(item)
      [] item.kind \in CompressedKinds -> 2
      [] OTHER -> 4

-----------------------------------------------------------------------------
(***************************************************************************)
(* Encoders.  A code word is an integer below 2^32, held as two limbs;     *)
(* the bit fields of one word never overlap, so `|` is a sum.              *)
(***************************************************************************)
\* x << k
Shl(x, k) == IF k >= 12 THEN [q |-> x * 2^(k - 12), r |-> 0] ELSE WNorm(0, x * 2^k)

\* the sum of the words of a sequence
RECURSIVE WSum(_)
WSum(ws) == IF ws = <<>> THEN W(0) ELSE WAdd(Head(ws), WSum(Tail(ws)))

\* lo <= imm <= hi
InRange(imm, lo, hi) == WLe(W(lo), imm) /\ WLe(imm, W(hi))

\* the registers of a call, looked up: the first failure, or the numbers
Regs(regs) ==
    LET looked == [i \in DOMAIN regs |-> lookup_register(regs[i])]
    IN  IF \E i \in DOMAIN regs : ~looked[i].ok
        THEN Raise("ValueError")
        ELSE Ok([i \in DOMAIN regs |-> looked[i].val])

r_type(rd, rs1, rs2, opcode, funct3, funct7) ==
    LET g == Regs(<<rd, rs1, rs2>>)
    IN  IF ~g.ok THEN g
        ELSE Ok(WSum(<<W(opcode), Shl(g.val[1], 7), Shl(funct3, 12),
                       Shl(g.val[2], 15), Shl(g.val[3], 20), Shl(funct7, 25)>>))

i_type(rd, rs1, imm, opcode, funct3) ==
    LET g == Regs(<<rd, rs1>>)
    IN  IF ~g.ok THEN g
        ELSE IF ~InRange(imm, -2048, 2047) THEN Raise("ValueError")
        ELSE Ok(WSum(<<W(opcode), Shl(g.val[1], 7), Shl(funct3, 12),
                       Shl(g.val[2], 15), Shl(ToInt(WLowBits(imm, 12)), 20)>>))

ij_type(rd, rs1, imm, opcode, funct3) ==
    LET g == Regs(<<rd, rs1>>)
    IN  IF ~g.ok THEN g
        ELSE IF ~InRange(imm, -2048, 2047) THEN Raise("ValueError")
        ELSE IF ~WEven(imm) THEN Raise("ValueError")
        ELSE Ok(WSum(<<W(opcode), Shl(g.val[1], 7), Shl(funct3, 12),
                       Shl(g.val[2], 15), Shl(ToInt(WLowBits(imm, 12)), 20)>>))

\* s_type without its range check: the immediate is cut to its low 12 bits
s_type_norange(rs1, rs2, imm, opcode, funct3) ==
    LET g == Regs(<<rs1, rs2>>)
    IN  IF ~g.ok THEN g
        ELSE LET i == ToInt(WLowBits(imm, 12))
             IN  Ok(WSum(<<W(opcode), Shl(i % 2^5, 7), Shl(funct3, 12), Shl(g.val[1], 15),
                           Shl(g.val[2], 20), Shl((i \div 2^5) % 2^7, 25)>>))

s_type(rs1, rs2, imm, opcode, funct3) ==
    LET g == Regs(<<rs1, rs2>>)
    IN  IF ~g.ok THEN g
        ELSE IF ~InRange(imm, -2048, 2047) THEN Raise("ValueError")
        ELSE LET i == ToInt(WLowBits(imm, 12))
                 imm_11_5 == (i \div 2^5) % 2^7
                 imm_4_0 == i % 2^5
             IN  Ok(WSum(<<W(opcode), Shl(imm_4_0, 7), Shl(funct3, 12), Shl(g.val[1], 15),
                           Shl(g.val[2], 20), Shl(imm_11_5, 25)>>))

b_type(rs1, rs2, imm, opcode, funct3) ==
    LET g == Regs(<<rs1, rs2>>)
    IN  IF ~g.ok THEN g
        ELSE IF ~InRange(imm, -4096, 4095) THEN Raise("ValueError")
        ELSE IF ~WEven(imm) THEN Raise("ValueError")
        ELSE LET i == (ToInt(imm) \div 2) % 2^12
                 imm_12 == (i \div 2^11) % 2
                 imm_11 == (i \div 2^10) % 2
                 imm_10_5 == (i \div 2^4) % 2^6
                 imm_4_1 == i % 2^4
             IN  Ok(WSum(<<W(opcode), Shl(imm_11, 7), Shl(imm_4_1, 8), Shl(funct3, 12),
                           Shl(g.val[1], 15), Shl(g.val[2], 20), Shl(imm_10_5, 25),
                           Shl(imm_12, 31)>>))

u_type(rd, imm, opcode) ==
    LET g == Regs(<<rd>>)
    IN  IF ~g.ok THEN g
        ELSE IF ~InRange(imm, -524288, 524287) THEN Raise("ValueError")
        ELSE Ok(WSum(<<W(opcode), Shl(g.val[1], 7), Shl(ToInt(WLowBits(imm, 20)), 12)>>))

j_type(rd, imm, opcode) ==
    LET g == Regs(<<rd>>)
    IN  IF ~g.ok THEN g
        ELSE IF ~InRange(imm, -1048576, 1048575) THEN Raise("ValueError")
        ELSE IF ~WEven(imm) THEN Raise("ValueError")
        ELSE LET i == (ToInt(imm) \div 2) % 2^20
                 imm_20 == (i \div 2^19) % 2
                 imm_19_12 == (i \div 2^11) % 2^8
                 imm_11 == (i \div 2^10) % 2
                 imm_10_1 == i % 2^10
             IN  Ok(WSum(<<W(opcode), Shl(g.val[1], 7), Shl(imm_19_12, 12), Shl(imm_11, 20),
                           Shl(imm_10_1, 21), Shl(imm_20, 31)>>))

\* succ and pred are integers here (transform_pseudo_instructions passes 0b1111)
fence(succ, pred, opcode, funct3, rd, rs1, fm) ==
    IF succ < 0 \/ succ > 15 \/ pred < 0 \/ pred > 15 THEN Raise("ValueError")
    ELSE i_type(W(rd), W(rs1), W(fm * 2^8 + pred * 2^4 + succ), opcode, funct3)

\* cs: the constraints of the instruction (RegRdRs1NotZero, RegRdRs1NotTwo,
\* RegRs2NotZero, ImmNotZero), by name
cr_type(rd_rs1, rs2, opcode, funct4, cs) ==
    LET g == Regs(<<rd_rs1, rs2>>)
    IN  IF ~g.ok THEN g
        ELSE IF "RegRdRs1NotZero" \in cs /\ g.val[1] = 0 THEN Raise("ValueError")
        ELSE IF "RegRs2NotZero" \in cs /\ g.val[2] = 0 THEN Raise("ValueError")
        ELSE Ok(WSum(<<W(opcode), Shl(g.val[2], 2), Shl(g.val[1], 7), Shl(funct4, 12)>>))

ci_type(rd_rs1, imm, opcode, funct3, cs) ==
    LET g == Regs(<<rd_rs1>>)
    IN  IF ~g.ok THEN g
        ELSE IF ~InRange(imm, -32, 31) THEN Raise("ValueError")
        ELSE IF "RegRdRs1NotZero" \in cs /\ g.val[1] = 0 THEN Raise("ValueError")
        ELSE IF "ImmNotZero" \in cs /\ imm = W(0) THEN Raise("ValueError")
        ELSE LET i == ToInt(WLowBits(imm, 6))
             IN  Ok(WSum(<<W(opcode), Shl(i % 2^5, 2), Shl(g.val[1], 7),
                           Shl((i \div 2^5) % 2, 12), Shl(funct3, 13)>>))

cia_type(imm, opcode, funct3, cs) ==
    IF ~InRange(imm, -512, 511) THEN Raise("ValueError")
    ELSE IF ToInt(imm) % 16 # 0 THEN Raise("ValueError")
    ELSE IF "ImmNotZero" \in cs /\ imm = W(0) THEN Raise("ValueError")
    ELSE LET i == (ToInt(imm) \div 16) % 2^6
             imm_9 == (i \div 2^5) % 2
             imm_8_4 == i % 2^5
         IN  Ok(WSum(<<W(opcode), Shl(imm_8_4, 2), Shl(2, 7), Shl(imm_9, 12),
                       Shl(funct3, 13)>>))

\* ciu_type without its constraints
ciu_type_unconstrained(rd_rs1, imm, opcode, funct3, cs) ==
    LET g == Regs(<<rd_rs1>>)
    IN  IF ~g.ok THEN g
        ELSE IF ~InRange(imm, -32, 31) THEN Raise("ValueError")
        ELSE LET i == ToInt(WLowBits(imm, 6))
             IN  Ok(WSum(<<W(opcode), Shl(i % 2^5, 2), Shl(g.val[1], 7),
                           Shl((i \div 2^5) % 2, 12), Shl(funct3, 13)>>))

ciu_type(rd_rs1, imm, opcode, funct3, cs) ==
    LET g == Regs(<<rd_rs1>>)
    IN  IF ~g.ok THEN g
        ELSE IF ~InRange(imm, -32, 31) THEN Raise("ValueError")
        ELSE IF "RegRdRs1NotZero" \in cs /\ g.val[1] = 0 THEN Raise("ValueError")
        ELSE IF "RegRdRs1NotTwo" \in cs /\ g.val[1] = 2 THEN Raise("ValueError")
        ELSE IF "ImmNotZero" \in cs /\ imm = W(0) THEN Raise("ValueError")
        ELSE LET i == ToInt(WLowBits(imm, 6))
                 imm_5 == (i \div 2^5) % 2
                 imm_4_0 == i % 2^5
             IN  Ok(WSum(<<W(opcode), Shl(imm_4_0, 2), Shl(g.val[1], 7), Shl(imm_5, 12),
                           Shl(funct3, 13)>>))

cil_type(rd_rs1, imm, opcode, funct3, cs) ==
    LET g == Regs(<<rd_rs1>>)
    IN  IF ~g.ok THEN g
        ELSE IF ~InRange(imm, 0, 255) THEN Raise("ValueError")
        ELSE IF ToInt(imm) % 4 # 0 THEN Raise("ValueError")
        ELSE IF "RegRdRs1NotZero" \in cs /\ g.val[1] = 0 THEN Raise("ValueError")
        ELSE LET i == (ToInt(imm) \div 4) % 2^6
                 imm_7 == (i \div 2^5) % 2
                 imm_6_2 == i % 2^5
             IN  Ok(WSum(<<W(opcode), Shl(imm_6_2, 2), Shl(g.val[1], 7), Shl(imm_7, 12),
                           Shl(funct3, 13)>>))

css_type(rs2, imm, opcode, funct3) ==
    LET g == Regs(<<rs2>>)
    IN  IF ~g.ok THEN g
        ELSE IF ~InRange(imm, 0, 255) THEN Raise("ValueError")
        ELSE IF ToInt(imm) % 4 # 0 THEN Raise("ValueError")
        ELSE LET i == (ToInt(imm) \div 4) % 2^6
                 imm_7_6 == (i \div 2^4) % 2^2
                 imm_5_2 == i % 2^4
             IN  Ok(WSum(<<W(opcode), Shl(g.val[1], 2), Shl(imm_7_6, 7), Shl(imm_5_2, 9),
                           Shl(funct3, 13)>>))

ciw_type(rd, imm, opcode, funct3, cs) ==
    LET g == lookup_register_compressed(rd)
    IN  IF ~g.ok THEN g
        ELSE IF ~InRange(imm, 0, 1023) THEN Raise("ValueError")
        ELSE IF ToInt(imm) % 4 # 0 THEN Raise("ValueError")
        ELSE IF "ImmNotZero" \in cs /\ imm = W(0) THEN Raise("ValueError")
        ELSE LET i == (ToInt(imm) \div 4) % 2^8
                 imm_9_6 == (i \div 2^4) % 2^4
                 imm_5_4 == (i \div 2^2) % 2^2
                 imm_3 == (i \div 2) % 2
                 imm_2 == i % 2
             IN  Ok(WSum(<<W(opcode), Shl(g.val, 2), Shl(imm_3, 5), Shl(imm_2, 6),
                           Shl(imm_9_6, 7), Shl(imm_5_4, 11), Shl(funct3, 13)>>))

cl_type(rd, rs1, imm, opcode, funct3) ==
    LET d == lookup_register_compressed(rd)
        s1 == lookup_register_compressed(rs1)
    IN  IF ~d.ok THEN d
        ELSE IF ~s1.ok THEN s1
        ELSE IF ~InRange(imm, 0, 127) THEN Raise("ValueError")
        ELSE IF ToInt(imm) % 4 # 0 THEN Raise("ValueError")
        ELSE LET i == (ToInt(imm) \div 4) % 2^5
                 imm_6 == (i \div 2^4) % 2
                 imm_5_3 == (i \div 2) % 2^3
                 imm_2 == i % 2
             IN  Ok(WSum(<<W(opcode), Shl(d.val, 2), Shl(imm_6, 5), Shl(imm_2, 6),
                           Shl(s1.val, 7), Shl(imm_5_3, 10), Shl(funct3, 13)>>))

cs_type(rs1, rs2, imm, opcode, funct3) ==
    LET s1 == lookup_register_compressed(rs1)
        s2 == lookup_register_compressed(rs2)
    IN  IF ~s1.ok THEN s1
        ELSE IF ~s2.ok THEN s2
        ELSE IF ~InRange(imm, 0, 127) THEN Raise("ValueError")
        ELSE IF ToInt(imm) % 4 # 0 THEN Raise("ValueError")
        ELSE LET i == (ToInt(imm) \div 4) % 2^5
                 imm_6 == (i \div 2^4) % 2
                 imm_5_3 == (i \div 2) % 2^3
                 imm_2 == i % 2
             IN  Ok(WSum(<<W(opcode), Shl(s2.val, 2), Shl(imm_6, 5), Shl(imm_2, 6),
                           Shl(s1.val, 7), Shl(imm_5_3, 10), Shl(funct3, 13)>>))

\* the immediate is shifted and masked, whatever its value
cb_type(rs1, imm, opcode, funct3) ==
    LET g == lookup_register_compressed(rs1)
    IN  IF ~g.ok THEN g
        ELSE LET i == (ToInt(imm) \div 2) % 2^8
                 imm_8 == (i \div 2^7) % 2
                 imm_7_6 == (i \div 2^5) % 2^2
                 imm_5 == (i \div 2^4) % 2
                 imm_4_3 == (i \div 2^2) % 2^2
                 imm_2_1 == i % 2^2
             IN  Ok(WSum(<<W(opcode), Shl(imm_5, 2), Shl(imm_2_1, 3), Shl(imm_7_6, 5),
                           Shl(g.val, 7), Shl(imm_4_3, 10), Shl(imm_8, 12), Shl(funct3, 13)>>))

cbi_type(rd_rs1, imm, opcode, funct2, funct3, cs) ==
    LET g == lookup_register_compressed(rd_rs1)
    IN  IF ~g.ok THEN g
        ELSE IF "ImmNotZero" \in cs /\ imm = W(0) THEN Raise("ValueError")
        ELSE LET i == ToInt(WLowBits(imm, 6))
                 imm_5 == (i \div 2^5) % 2
                 imm_4_0 == i % 2^5
             IN  Ok(WSum(<<W(opcode), Shl(imm_4_0, 2), Shl(g.val, 7), Shl(funct2, 10),
                           Shl(imm_5, 12), Shl(funct3, 13)>>))

cj_type(imm, opcode, funct3) ==
    IF ~InRange(imm, -2048, 2047) THEN Raise("ValueError")
    ELSE IF ~WEven(imm) THEN Raise("ValueError")
    ELSE LET i == (ToInt(imm) \div 2) % 2^11
             imm_11 == (i \div 2^10) % 2
             imm_10 == (i \div 2^9) % 2
             imm_9_8 == (i \div 2^7) % 2^2
             imm_7 == (i \div 2^6) % 2
             imm_6 == (i \div 2^5) % 2
             imm_5 == (i \div 2^4) % 2
             imm_4 == (i \div 2^3) % 2
             imm_3_1 == i % 2^3
         IN  Ok(WSum(<<W(opcode), Shl(imm_5, 2), Shl(imm_3_1, 3), Shl(imm_7, 6),
                       Shl(imm_6, 7), Shl(imm_10, 8), Shl(imm_9_8, 9), Shl(imm_4, 11),
                       Shl(imm_11, 12), Shl(funct3, 13)>>))

\* INSTRUCTIONS[item.name](*item.args()), for the mnemonics of the programs considered
Encode(item) ==
    LET n == item.name
    IN  CASE n = "lui" -> u_type(item.rd, item.imm, 55)
          [] n = "auipc" -> u_type(item.rd, item.imm, 23)
          [] n = "jal" -> j_type(item.rd, item.imm, 111)
          [] n = "jalr" -> ij_type(item.rd, item.rs1, item.imm, 103, 0)
          [] n = "beq" -> b_type(item.rs1, item.rs2, item.imm, 99, 0)
          [] n = "bne" -> b_type(item.rs1, item.rs2, item.imm, 99, 1)
          [] n = "blt" -> b_type(item.rs1, item.rs2, item.imm, 99, 4)
          [] n = "bge" -> b_type(item.rs1, item.rs2, item.imm, 99, 5)
          [] n = "bltu" -> b_type(item.rs1, item.rs2, item.imm, 99, 6)
          [] n = "bgeu" -> b_type(item.rs1, item.rs2, item.imm, 99, 7)
          [] n = "sb" -> s_type(item.rs1, item.rs2, item.imm, 35, 0)
          [] n = "sw" -> s_type(item.rs1, item.rs2, item.imm, 35, 2)
          [] n = "addi" -> i_type(item.rd, item.rs1, item.imm, 19, 0)
          [] n = "sltiu" -> i_type(item.rd, item.rs1, item.imm, 19, 3)
          [] n = "xori" -> i_type(item.rd, item.rs1, item.imm, 19, 4)
          [] n = "sub" -> r_type(item.rd, item.rs1, item.rs2, 51, 0, 32)
          [] n = "slt" -> r_type(item.rd, item.rs1, item.rs2, 51, 2, 0)
          [] n = "sltu" -> r_type(item.rd, item.rs1, item.rs2, 51, 3, 0)
          [] n = "fence" -> fence(item.succ, item.pred, 15, 0, 0, 0, 0)
          [] n = "c.addi4spn" -> ciw_type(item.rd, item.imm, 0, 0, {"ImmNotZero"})
          [] n = "c.lw" -> cl_type(item.rd, item.rs1, item.imm, 0, 2)
          [] n = "c.sw" -> cs_type(item.rs1, item.rs2, item.imm, 0, 6)
          [] n = "c.nop" -> ci_type(W(0), W(0), 1, 0, {})
          [] n = "c.addi" -> ci_type(item.rd_rs1, item.imm, 1, 0, {"RegRdRs1NotZero", "ImmNotZero"})
          [] n = "c.li" -> ci_type(item.rd_rs1, item.imm, 1, 2, {"RegRdRs1NotZero"})
          [] n = "c.addi16sp" -> cia_type(item.imm, 1, 3, {"ImmNotZero"})
          [] n = "c.lui" -> ciu_type(item.rd_rs1, item.imm, 1, 3,
                                     {"RegRdRs1NotZero", "RegRdRs1NotTwo", "ImmNotZero"})
          [] n = "c.srli" -> cbi_type(item.rs1, item.imm, 1, 0, 4, {"ImmNotZero"})
          [] n = "c.srai" -> cbi_type(item.rs1, item.imm, 1, 1, 4, {"ImmNotZero"})
          [] n = "c.andi" -> cbi_type(item.rs1, item.imm, 1, 2, 4, {})
          [] n = "c.beqz" -> cb_type(item.rs1, item.imm, 1, 6)
          [] n = "c.bnez" -> cb_type(item.rs1, item.imm, 1, 7)
          [] n = "c.slli" -> ci_type(item.rd_rs1, item.imm, 2, 0, {"RegRdRs1NotZero", "ImmNotZero"})
          [] n = "c.lwsp" -> cil_type(item.rd_rs1, item.imm, 2, 2, {"RegRdRs1NotZero"})
          [] n = "c.jr" -> cr_type(item.rd_rs1, W(0), 2, 8, {"RegRdRs1NotZero"})
          [] n = "c.mv" -> cr_type(item.rd_rs1, item.rs2, 2, 8, {"RegRdRs1NotZero", "RegRs2NotZero"})
          [] n = "c.jalr" -> cr_type(item.rd_rs1, W(0), 2, 9, {"RegRdRs1NotZero"})
          [] n = "c.add" -> cr_type(item.rd_rs1, item.rs2, 2, 9, {"RegRdRs1NotZero", "RegRs2NotZero"})
          [] n = "c.swsp" -> css_type(item.rs2, item.imm, 2, 6)
          [] n = "c.jal" -> cj_type(item.imm, 1, 1)
          [] n = "c.j" -> cj_type(item.imm, 1, 5)

\* struct.pack('<I', code)
packI(code) ==
    <<[b |-> code.r % 256, n |-> 1],
      [b |-> (code.r \div 256) + (code.q % 16) * 16, n |-> 1],
      [b |-> (code.q \div 16) % 256, n |-> 1],
      [b |-> code.q \div 4096, n |-> 1]>>

-----------------------------------------------------------------------------
(***************************************************************************)
(* The passes of assemble().  A pass that walks the list without touching  *)
(* the environments in between is one step; its loop is a recursive        *)
(* operator over a record of the loop's local variables, with field exc    *)
(* the exception that ended it ("none": it ran to its return).             *)
(***************************************************************************)
NoErr == [exc |-> "none", line |-> 0]

\* an exception as it leaves a pass: only AssemblerError carries a line
Exc(exc, line) == [exc |-> exc, line |-> IF exc = "AssemblerError" THEN line ELSE 0]

\* only the names x0..x31 taken for register names
IsXName(name) == \E i \in 1..32 : XNames[i] = name

\* item.name in REGISTERS, for a name that is an identifier
IsRegisterName(name) == name \in DOMAIN REGISTER_NAMES

RECURSIVE resolve_constants_loop(_, _, _)
resolve_constants_loop(its, i, st) ==
    IF i > Len(its) THEN st
    ELSE LET item == its[i]
         IN  IF item.kind # "Constant"
             THEN resolve_constants_loop(its, i + 1,
                      [st EXCEPT !.position = @ + size(item, @),
                                 !.new_items = Append(@, item)])
             ELSE IF IsRegisterName(item.name)
             THEN [st EXCEPT !.err = Exc("AssemblerError", item.line)]
             ELSE LET env == ChainMap(st.constants, AsInts(REGISTER_NAMES))
                      v == Eval(item.expr, st.position, env)
                  IN  IF ~v.ok THEN [st EXCEPT !.err = Exc(v.exc, item.line)]
                      ELSE IF st.constants = PyTrue
                      THEN [st EXCEPT !.err = Exc("TypeError", item.line)]
                      ELSE resolve_constants_loop(its, i + 1,
                               [st EXCEPT !.constants =
                                    ChainMap((item.name :> v.val), @)])

\* resolve_constants returning the list it was given, Constant items included
resolve_constants_keep(its, cs) ==
    [resolve_constants_loop(its, 1,
         [position |-> 0, new_items |-> <<>>, constants |-> cs, err |-> NoErr])
     EXCEPT !.new_items = its]

resolve_constants(its, cs) ==
    resolve_constants_loop(its, 1,
        [position |-> 0, new_items |-> <<>>, constants |-> cs, err |-> NoErr])

RECURSIVE resolve_labels_loop(_, _, _)
resolve_labels_loop(its, i, st) ==
    IF i > Len(its) THEN st
    ELSE LET item == its[i]
         IN  IF item.kind # "Label"
             THEN resolve_labels_loop(its, i + 1,
                      [st EXCEPT !.position = @ + size(item, @),
                                 !.new_items = Append(@, item)])
             ELSE resolve_labels_loop(its, i + 1,
                      [st EXCEPT !.labels = ChainMap((item.name :> st.position), @)])

resolve_labels(its, ls) ==
    resolve_labels_loop(its, 1, [position |-> 0, new_items |-> <<>>, labels |-> ls])

REGS == {"rd", "rs1", "rs2", "rd_rs1"}

\* constants.get(value, value)
AliasOf(value, cs) ==
    IF IsTok(value) /\ value.t = "id" /\ value.s \in DOMAIN cs THEN cs[value.s] ELSE value

resolve_register_aliases_item(item, cs) ==
    IF DOMAIN item \cap REGS = {} THEN item
    ELSE [f \in DOMAIN item |-> IF f \in REGS THEN AliasOf(item[f], cs) ELSE item[f]]

resolve_register_aliases(its, cs) ==
    [i \in 1..Len(its) |-> resolve_register_aliases_item(its[i], cs)]

-----------------------------------------------------------------------------
(***************************************************************************)
(* transform_compressible and transform_pseudo_instructions rewrite the    *)
(* labels environment while they walk the list, so one turn of their loop  *)
(* is one step.  A turn yields the items appended to new_items, the labels *)
(* and the position after it, or the exception it raised.                  *)
(***************************************************************************)
Turn(out, ls, pos) == [out |-> out, labels |-> ls, position |-> pos, err |-> NoErr]

Failed(ls, pos, e) == [out |-> <<>>, labels |-> ls, position |-> pos, err |-> e]

ShrinkLabelsFrom(ls, pos, by) ==
    [n \in DOMAIN ls |-> IF ls[n] < pos THEN ls[n] ELSE ls[n] - by]

\* the labels after the position moved up instead of down
ShrinkLabelsUp(ls, pos, by) ==
    [n \in DOMAIN ls |-> IF ls[n] <= pos THEN ls[n] ELSE ls[n] + by]

\* for label in labels: if labels[label] <= position: continue; labels[label] -= by
ShrinkLabels(ls, pos, by) ==
    [n \in DOMAIN ls |-> IF ls[n] <= pos THEN ls[n] ELSE ls[n] - by]

\* imm % 2 == 0 and imm >= -2048 and imm <= 2047
FitsCJ(imm) == WEven(imm) /\ WLe(W(-2048), imm) /\ WLe(imm, W(2047))

\* the c.j branch alone: a jal with rd x1 is never replaced
CompressibleOnlyJ(rd, imm) ==
    IF rd = 0 /\ FitsCJ(imm) THEN "c.j" ELSE "none"

\* the branch transform_compressible takes for a jal with register rd and offset imm
Compressible(rd, imm) ==
    IF rd = 0 /\ FitsCJ(imm) THEN "c.j"
    ELSE IF rd = 1 /\ FitsCJ(imm) THEN "c.jal"
    ELSE "none"

\* one turn of transform_compressible's loop
transform_compressible_turn(item, pos, cs, ls) ==
    IF IsInstruction(item) /\ item.name = "jal"
    THEN IF "rd" \notin DOMAIN item THEN Failed(ls, pos, Exc("AttributeError", item.line))
         ELSE LET rd == lookup_register(item.rd)
                  env == ChainMap(cs, AsInts(ls))
                  imm == Eval(item.imm, pos, env)
              IN  IF ~rd.ok THEN Failed(ls, pos, Exc(rd.exc, item.line))
                  ELSE IF ~imm.ok THEN Failed(ls, pos, Exc(imm.exc, item.line))
                  ELSE IF Compressible(rd.val, imm.val) # "none"
                  THEN LET inst == CJTypeInstruction(item.line,
                                       Compressible(rd.val, imm.val), item.imm)
                       IN  Turn(<<inst>>, ShrinkLabels(ls, pos, 2), pos + size(inst, pos))
                  ELSE Turn(<<item>>, ls, pos + size(item, pos))
    ELSE Turn(<<item>>, ls, pos + size(item, pos))

x0 == Id("x0")

x1 == Id("x1")

x6 == Id("x6")

Zero == Arithmetic(<<Dec(0)>>)

\* the expansion to one instruction, moving the later labels as the li branch does
SingleShrinking(inst, ls, pos) ==
    Turn(<<inst>>, ShrinkLabels(ls, pos, 4), pos + size(inst, pos))

\* the expansion of a pseudo-instruction that is one instruction of 4 bytes
Single(inst, ls, pos) == Turn(<<inst>>, ls, pos + size(inst, pos))

\* a branch pseudo-instruction expanded with its two registers exchanged
BranchSwapped(item, name, rs1, rs2, reference, ls, pos) ==
    Single(BTypeInstruction(item.line, name, rs2, rs1,
                            parse_immediate(<<Id("%offset"), reference>>)), ls, pos)

\* the expansion of a branch pseudo-instruction: name rs1, rs2, %offset reference
Branch(item, name, rs1, rs2, reference, ls, pos) ==
    Single(BTypeInstruction(item.line, name, rs1, rs2,
                            parse_immediate(<<Id("%offset"), reference>>)), ls, pos)

LiAlwaysTwo(item, pos, cs, ls) ==
    LET rd == item.args[1]
        imm == parse_immediate(Tail(item.args))
        value == Eval(imm, pos, ChainMap(cs, AsInts(ls)))
    IN  IF ~value.ok THEN Failed(ls, pos, Exc(value.exc, item.line))
        ELSE Turn(<<UTypeInstruction(item.line, "lui", rd, Hi(imm)),
                    ITypeInstruction(item.line, "addi", rd, rd, Lo(imm), FALSE)>>,
                  ls, pos + 8)

\* the li branch of transform_pseudo_instructions
Li(item, pos, cs, ls) ==
    LET rd == item.args[1]
        imm == parse_immediate(Tail(item.args))
        value == Eval(imm, pos, ChainMap(cs, AsInts(ls)))
    IN  IF ~value.ok THEN Failed(ls, pos, Exc(value.exc, item.line))
        ELSE IF InRange(c_int32(value.val), -2048, 2047)
        THEN LET inst == ITypeInstruction(item.line, "addi", rd, x0, Lo(imm), FALSE)
             IN  Turn(<<inst>>, ShrinkLabels(ls, pos, 4), pos + size(inst, pos))
        ELSE LET lui == UTypeInstruction(item.line, "lui", rd, Hi(imm))
                 addi == ITypeInstruction(item.line, "addi", rd, rd, Lo(imm), FALSE)
             IN  Turn(<<lui, addi>>, ls,
                      (pos + size(lui, pos)) + size(addi, pos + size(lui, pos)))

\* the call and tail branches: auipc rd, hi(%offset L); jalr link, rd, lo(%offset L)
AuipcJump(item, rd, link, ls, pos) ==
    LET imm == parse_immediate(<<Id("%offset"), item.args[1]>>)
        auipc == UTypeInstruction(item.line, "auipc", rd, Hi(imm))
        jalr == ITypeInstruction(item.line, "jalr", link, rd, Lo(imm), TRUE)
    IN  Turn(<<auipc, jalr>>, ls,
             (pos + size(auipc, pos)) + size(jalr, pos + size(auipc, pos)))

\* one turn of transform_pseudo_instructions's loop
transform_pseudo_instructions_turn(item, pos, cs, ls) ==
    IF item.kind # "PseudoInstruction" THEN Turn(<<item>>, ls, pos + size(item, pos))
    ELSE LET n == item.name
             a == item.args
             l == item.line
         IN  CASE n = "nop" -> Single(ITypeInstruction(l, "addi", x0, x0, Zero, FALSE), ls, pos)
               [] n = "li" -> Li(item, pos, cs, ls)
               [] n = "mv" -> Single(ITypeInstruction(l, "addi", a[1], a[2], Zero, FALSE), ls, pos)
               [] n = "not" -> Single(ITypeInstruction(l, "xori", a[1], a[2],
                                          Arithmetic(<<Dec(-1)>>), FALSE), ls, pos)
               [] n = "neg" -> Single(RTypeInstruction(l, "sub", a[1], x0, a[2]), ls, pos)
               [] n = "seqz" -> Single(ITypeInstruction(l, "sltiu", a[1], a[2],
                                           Arithmetic(<<Dec(1)>>), FALSE), ls, pos)
               [] n = "snez" -> Single(RTypeInstruction(l, "sltu", a[1], x0, a[2]), ls, pos)
               [] n = "sltz" -> Single(RTypeInstruction(l, "slt", a[1], a[2], x0), ls, pos)
               [] n = "sgtz" -> Single(RTypeInstruction(l, "slt", a[1], x0, a[2]), ls, pos)
               [] n = "beqz" -> Branch(item, "beq", a[1], x0, a[2], ls, pos)
               [] n = "bnez" -> Branch(item, "bne", a[1], x0, a[2], ls, pos)
               [] n = "blez" -> Branch(item, "bge", x0, a[1], a[2], ls, pos)
               [] n = "bgez" -> Branch(item, "bge", a[1], x0, a[2], ls, pos)
               [] n = "bltz" -> Branch(item, "blt", a[1], x0, a[2], ls, pos)
               [] n = "bgtz" -> Branch(item, "blt", x0, a[1], a[2], ls, pos)
               [] n = "bgt" -> Branch(item, "blt", a[2], a[1], a[3], ls, pos)
               [] n = "ble" -> Branch(item, "bge", a[2], a[1], a[3], ls, pos)
               [] n = "bgtu" -> Branch(item, "bltu", a[2], a[1], a[3], ls, pos)
               [] n = "bleu" -> Branch(item, "bgeu", a[2], a[1], a[3], ls, pos)
               [] n = "j" -> Single(JTypeInstruction(l, "jal", x0,
                                        parse_immediate(<<Id("%offset"), a[1]>>)), ls, pos)
               [] n = "jal" -> Single(JTypeInstruction(l, "jal", x1,
                                          parse_immediate(<<Id("%offset"), a[1]>>)), ls, pos)
               [] n = "jr" -> Single(ITypeInstruction(l, "jalr", x0, a[1], Zero, FALSE), ls, pos)
               [] n = "jalr" -> Single(ITypeInstruction(l, "jalr", x1, a[1], Zero, FALSE), ls, pos)
               [] n = "ret" -> Single(ITypeInstruction(l, "jalr", x0, x1, Zero, FALSE), ls, pos)
               [] n = "call" -> AuipcJump(item, x1, x1, ls, pos)
               [] n = "tail" -> AuipcJump(item, x6, x0, ls, pos)
               [] n = "fence" -> Single(FenceInstruction(l, "fence", 15, 15), ls, pos)
               [] OTHER -> Failed(ls, pos, Exc("AssemblerError", l))

-----------------------------------------------------------------------------
(* The passes after the last size-changing one.                            *)

RECURSIVE resolve_immediates_loop(_, _, _, _)
resolve_immediates_loop(its, i, env, st) ==
    IF i > Len(its) THEN st
    ELSE LET item == its[i]
         IN  IF "imm" \notin DOMAIN item
             THEN resolve_immediates_loop(its, i + 1, env,
                      [st EXCEPT !.position = @ + size(item, @),
                                 !.new_items = Append(@, item)])
             ELSE LET v == Eval(item.imm, st.position, env)
                      imm == IF "is_auipc_jump" \in DOMAIN item /\ item.is_auipc_jump
                             THEN WAdd(v.val, W(4)) ELSE v.val
                  IN  IF ~v.ok THEN [st EXCEPT !.err = Exc(v.exc, item.line)]
                      ELSE resolve_immediates_loop(its, i + 1, env,
                               [st EXCEPT !.position = @ + size(item, @),
                                          !.new_items = Append(@, [item EXCEPT !.imm = imm])])

resolve_immediates(its, cs, ls) ==
    resolve_immediates_loop(its, 1, ChainMap(cs, AsInts(ls)),
        [position |-> 0, new_items |-> <<>>, err |-> NoErr])

\* every instruction is encoded and packed with struct.pack('<I', code)
resolve_instructions(its) ==
    LET codes == [i \in 1..Len(its) |->
                     IF IsInstruction(its[i]) THEN Encode(its[i]) ELSE Ok(W(0))]
        bad == {i \in 1..Len(its) : ~codes[i].ok}
    IN  IF bad # {}
        THEN [new_items |-> <<>>,
              err |-> Exc("AssemblerError", its[CHOOSE i \in bad : \A j \in bad : i <= j].line)]
        ELSE [new_items |-> [i \in 1..Len(its) |->
                  IF IsInstruction(its[i]) THEN Blob(its[i].line, packI(codes[i].val))
                  ELSE its[i]],
              err |-> NoErr]

\* resolve_strings leaving every String in the list
resolve_strings_none(its) == its

\* item.value.encode('utf-8'): the string's bytes
resolve_strings(its) ==
    [i \in 1..Len(its) |->
        IF its[i].kind = "String" THEN Blob(its[i].line, its[i].value) ELSE its[i]]

\* byte k of the two's-complement form of v
ByteAt(v, k) ==
    CASE k = 0 -> v.r % 256
      [] k = 1 -> (v.r \div 256) + (v.q % 16) * 16
      [] k \in 2..5 -> (v.q \div 2^(8 * k - 12)) % 256
      [] OTHER -> IF v.q < 0 THEN 255 ELSE 0

\* struct.pack of one integer, little-endian, in width bytes
PackInt(v, width, signed) ==
    LET fits == IF width = 8 THEN signed \/ v.q >= 0
                ELSE IF signed
                     THEN WLe(WSub(W(0), WPow2(8 * width - 1)), v) /\ WLt(v, WPow2(8 * width - 1))
                     ELSE v.q >= 0 /\ WLt(v, WPow2(8 * width))
    IN  IF fits THEN Ok([k \in 1..width |-> [b |-> ByteAt(v, k - 1), n |-> 1]])
        ELSE Raise("struct.error")

\* the bytes of a Sequence: each value packed at the width of its kind
RECURSIVE SequenceData(_, _)
SequenceData(values, width) ==
    IF values = <<>> THEN Ok(<<>>)
    ELSE LET value == Head(values).val
             one == PackInt(value, width, WLt(value, W(0)))
             rest == SequenceData(Tail(values), width)
         IN  IF ~one.ok THEN one
             ELSE IF ~rest.ok THEN rest
             ELSE Ok(one.val \o rest.val)

\* a lowering pass that turns the items of one kind into Blobs, or raises:
\* data[i] is the packed form of its[i], or the exception packing it raised
Lowered(its, kind, data) ==
    LET bad == {i \in 1..Len(its) : its[i].kind = kind /\ ~data[i].ok}
    IN  IF bad # {}
        THEN [new_items |-> <<>>,
              err |-> Exc(data[CHOOSE i \in bad : \A j \in bad : i <= j].exc, 0)]
        ELSE [new_items |-> [i \in 1..Len(its) |->
                  IF its[i].kind = kind THEN Blob(its[i].line, data[i].val) ELSE its[i]],
              err |-> NoErr]

resolve_sequences(its) ==
    Lowered(its, "Sequence",
        [i \in 1..Len(its) |->
            IF its[i].kind = "Sequence"
            THEN SequenceData(its[i].values, SequenceSizes[its[i].name])
            ELSE Ok(<<>>)])

ShorthandFormats == [db |-> "B", dh |-> "H", dw |-> "I", dd |-> "Q"]

Lower == [B |-> "b", H |-> "h", I |-> "i", Q |-> "q"]

transform_shorthand_packs(its) ==
    [i \in 1..Len(its) |->
        IF its[i].kind # "ShorthandPack" THEN its[i]
        ELSE Pack(its[i].line,
                  IF WLt(its[i].imm, W(0))
                  THEN "<" \o Lower[ShorthandFormats[its[i].name]]
                  ELSE "<" \o ShorthandFormats[its[i].name],
                  its[i].imm)]

resolve_packs(its) ==
    Lowered(its, "Pack",
        [i \in 1..Len(its) |->
            IF its[i].kind = "Pack"
            THEN PackInt(its[i].imm, calcsize(its[i].fmt),
                         its[i].fmt \in {"<b", "<h", "<i", "<q"})
            ELSE Ok(<<>>)])

RECURSIVE resolve_aligns_loop(_, _, _)
resolve_aligns_loop(its, i, st) ==
    IF i > Len(its) THEN st
    ELSE LET item == its[i]
             padding == size(item, st.position)
         IN  IF item.kind # "Align"
             THEN resolve_aligns_loop(its, i + 1,
                      [st EXCEPT !.position = @ + size(item, @),
                                 !.new_items = Append(@, item)])
             ELSE IF padding = 0 THEN resolve_aligns_loop(its, i + 1, st)
             ELSE resolve_aligns_loop(its, i + 1,
                      [st EXCEPT !.position = @ + padding,
                                 !.new_items = Append(@, Blob(item.line,
                                                   <<[b |-> 0, n |-> padding]>>))])

resolve_aligns(its) ==
    resolve_aligns_loop(its, 1, [position |-> 0, new_items |-> <<>>])

RECURSIVE Concat(_)
Concat(its) == IF its = <<>> THEN <<>> ELSE Head(its).data \o Concat(Tail(its))

\* the bytes of the blobs in order, or ValueError when an item is no Blob
resolve_blobs(its) ==
    IF \E i \in 1..Len(its) : its[i].kind # "Blob" THEN Raise("ValueError")
    ELSE Ok(Concat(its))

-----------------------------------------------------------------------------
(***************************************************************************)
(* assemble(): the passes in order.  pc names the pass about to run.       *)
(***************************************************************************)
NoLabels == [n \in {} |-> 0]

\* the state while no program is being assembled
PipeIdle ==
    /\ pc = "idle" /\ src = <<>> /\ compress = FALSE /\ items = <<>>
    /\ new_items = <<>> /\ idx = 0 /\ position = 0
    /\ constants = EmptyMap /\ labels = NoLabels /\ program = <<>> /\ err = NoErr

\* assemble(source, compress=c) after read, lex and parse produced prog
Assemble(prog, c) ==
    /\ pc = "constants" /\ src = prog /\ compress = c /\ items = prog
    /\ new_items = <<>> /\ idx = 0 /\ position = 0
    /\ constants = EmptyMap /\ labels = NoLabels /\ program = <<>> /\ err = NoErr

\* the pass ended by raising e: assemble() is left with that exception
Abort(e) ==
    /\ pc' = "failed" /\ err' = e
    /\ UNCHANGED <<arith, src, compress, items, new_items, idx, position, program>>

\* items = <pass>(items, ...) returned its: the next pass starts
Enter(next, its) ==
    /\ pc' = next /\ items' = its /\ new_items' = <<>> /\ idx' = 0 /\ position' = 0
    /\ UNCHANGED <<arith, src, compress, program, err>>

ResolveConstants ==
    /\ pc = "constants"
    /\ LET st == resolve_constants(items, constants)
       IN  /\ constants' = st.constants
           /\ labels' = labels
           /\ IF st.err.exc # "none" THEN Abort(st.err) ELSE Enter("labels", st.new_items)

ResolveLabels ==
    /\ pc = "labels"
    /\ LET st == resolve_labels(items, labels)
       IN  /\ labels' = st.labels
           /\ constants' = constants
           /\ Enter("aliases", st.new_items)

\* constants.get raises AttributeError when constants is no mapping
ResolveRegisterAliases ==
    /\ pc = "aliases"
    /\ UNCHANGED <<constants, labels>>
    /\ IF constants = PyTrue /\ \E i \in 1..Len(items) : DOMAIN items[i] \cap REGS # {}
       THEN Abort(Exc("AttributeError", 0))
       ELSE Enter(IF compress THEN "compress1" ELSE "pseudo",
                  resolve_register_aliases(items, constants))

\* one turn of the loop of transform_compressible
TransformCompressibleTurn ==
    /\ pc \in {"compress1", "compress2"}
    /\ idx < Len(items)
    /\ LET t == transform_compressible_turn(items[idx + 1], position, constants, labels)
       IN  /\ labels' = t.labels
           /\ constants' = constants
           /\ IF t.err.exc # "none" THEN Abort(t.err)
              ELSE /\ new_items' = new_items \o t.out
                   /\ idx' = idx + 1
                   /\ position' = t.position
                   /\ UNCHANGED <<arith, pc, src, compress, items, program, err>>

\* return new_items
TransformCompressibleReturn ==
    /\ pc \in {"compress1", "compress2"}
    /\ idx = Len(items)
    /\ UNCHANGED <<constants, labels>>
    /\ Enter(IF pc = "compress1" THEN "pseudo" ELSE "immediates", new_items)

\* one turn of the loop of transform_pseudo_instructions
TransformPseudoInstructionsTurn ==
    /\ pc = "pseudo"
    /\ idx < Len(items)
    /\ LET t == transform_pseudo_instructions_turn(items[idx + 1], position, constants, labels)
       IN  /\ labels' = t.labels
           /\ constants' = constants
           /\ IF t.err.exc # "none" THEN Abort(t.err)
              ELSE /\ new_items' = new_items \o t.out
                   /\ idx' = idx + 1
                   /\ position' = t.position
                   /\ UNCHANGED <<arith, pc, src, compress, items, program, err>>

\* return new_items
TransformPseudoInstructionsReturn ==
    /\ pc = "pseudo"
    /\ idx = Len(items)
    /\ UNCHANGED <<constants, labels>>
    /\ Enter(IF compress THEN "compress2" ELSE "immediates", new_items)

ResolveImmediates ==
    /\ pc = "immediates"
    /\ UNCHANGED <<constants, labels>>
    /\ LET st == resolve_immediates(items, constants, labels)
       IN  IF st.err.exc # "none" THEN Abort(st.err) ELSE Enter("instructions", st.new_items)

ResolveInstructions ==
    /\ pc = "instructions"
    /\ UNCHANGED <<constants, labels>>
    /\ LET st == resolve_instructions(items)
       IN  IF st.err.exc # "none" THEN Abort(st.err) ELSE Enter("strings", st.new_items)

ResolveStrings ==
    /\ pc = "strings"
    /\ UNCHANGED <<constants, labels>>
    /\ Enter("sequences", resolve_strings(items))

ResolveSequences ==
    /\ pc = "sequences"
    /\ UNCHANGED <<constants, labels>>
    /\ LET st == resolve_sequences(items)
       IN  IF st.err.exc # "none" THEN Abort(st.err) ELSE Enter("shorthand", st.new_items)

TransformShorthandPacks ==
    /\ pc = "shorthand"
    /\ UNCHANGED <<constants, labels>>
    /\ Enter("packs", transform_shorthand_packs(items))

ResolvePacks ==
    /\ pc = "packs"
    /\ UNCHANGED <<constants, labels>>
    /\ LET st == resolve_packs(items)
       IN  IF st.err.exc # "none" THEN Abort(st.err) ELSE Enter("aligns", st.new_items)

ResolveAligns ==
    /\ pc = "aligns"
    /\ UNCHANGED <<constants, labels>>
    /\ Enter("blobs", resolve_aligns(items).new_items)

\* program = resolve_blobs(items); return program
ResolveBlobs ==
    /\ pc = "blobs"
    /\ UNCHANGED <<constants, labels>>
    /\ LET out == resolve_blobs(items)
       IN  IF ~out.ok THEN Abort(Exc(out.exc, 0))
           ELSE /\ pc' = "done" /\ program' = out.val
                /\ UNCHANGED <<arith, src, compress, items, new_items, idx, position, err>>

Next ==
    \/ ResolveConstants
    \/ ResolveLabels
    \/ ResolveRegisterAliases
    \/ TransformCompressibleTurn
    \/ TransformCompressibleReturn
    \/ TransformPseudoInstructionsTurn
    \/ TransformPseudoInstructionsReturn
    \/ ResolveImmediates
    \/ ResolveInstructions
    \/ ResolveStrings
    \/ ResolveSequences
    \/ TransformShorthandPacks
    \/ ResolvePacks
    \/ ResolveAligns
    \/ ResolveBlobs

-----------------------------------------------------------------------------
(***************************************************************************)
(* Programs.  A program is a list of at most MaxItems source lines, each   *)
(* one of a few statements, named here by their text; Parsed gives the     *)
(* item parse_item returns for the statement on a given line.              *)
(***************************************************************************)
MaxItems == 3

\* 'string aaa...a' with n letters
Letters(n) == <<[b |-> 97, n |-> n]>>

Parsed(text, line) ==
    CASE text = "A:" -> Label(line, "A")
      [] text = "B:" -> Label(line, "B")
      [] text = "A = 6" -> Constant(line, "A", Arithmetic(<<Dec(6)>>))
      [] text = "B = A" -> Constant(line, "B", Arithmetic(<<Id("A")>>))
      [] text = "A = B" -> Constant(line, "A", Arithmetic(<<Id("B")>>))
      [] text = "IP = gp" -> Constant(line, "IP", Arithmetic(<<Id("gp")>>))
      [] text = "t0 = 5" -> Constant(line, "t0", Arithmetic(<<Dec(5)>>))
      [] text = "fp = 5" -> Constant(line, "fp", Arithmetic(<<Dec(5)>>))
      [] text = "addi t0, t0, A" ->
            ITypeInstruction(line, "addi", Id("t0"), Id("t0"), Arithmetic(<<Id("A")>>), FALSE)
      [] text = "addi t0, t0, sp" ->
            ITypeInstruction(line, "addi", Id("t0"), Id("t0"), Arithmetic(<<Id("sp")>>), FALSE)
      [] text = "addi IP, IP, 1" ->
            ITypeInstruction(line, "addi", Id("IP"), Id("IP"), Arithmetic(<<Dec(1)>>), FALSE)
      [] text = "mv IP, t0" -> PseudoInstruction(line, "mv", <<Id("IP"), Id("t0")>>)
      [] text = "jal x0, A" -> JTypeInstruction(line, "jal", Id("x0"), Offset("A"))
      [] text = "jal zero, B" -> JTypeInstruction(line, "jal", Id("zero"), Offset("B"))
      [] text = "jal ra, B" -> JTypeInstruction(line, "jal", Id("ra"), Offset("B"))
      [] text = "jal t0, B" -> JTypeInstruction(line, "jal", Id("t0"), Offset("B"))
      [] text = "jal x0, 2046" ->
            JTypeInstruction(line, "jal", Id("x0"), Arithmetic(<<Dec(2046)>>))
      [] text = "jal x0, -2050" ->
            JTypeInstruction(line, "jal", Id("x0"), Arithmetic(<<Dec(-2050)>>))
      [] text = "beq t0, x0, A" ->
            BTypeInstruction(line, "beq", Id("t0"), Id("x0"), Offset("A"))
      [] text = "jal A" -> PseudoInstruction(line, "jal", <<Id("A")>>)
      [] text = "j B" -> PseudoInstruction(line, "j", <<Id("B")>>)
      [] text = "nop" -> PseudoInstruction(line, "nop", <<>>)
      [] text = "mv t0, a0" -> PseudoInstruction(line, "mv", <<Id("t0"), Id("a0")>>)
      [] text = "not t0, a0" -> PseudoInstruction(line, "not", <<Id("t0"), Id("a0")>>)
      [] text = "neg t0, a0" -> PseudoInstruction(line, "neg", <<Id("t0"), Id("a0")>>)
      [] text = "seqz t0, a0" -> PseudoInstruction(line, "seqz", <<Id("t0"), Id("a0")>>)
      [] text = "snez t0, a0" -> PseudoInstruction(line, "snez", <<Id("t0"), Id("a0")>>)
      [] text = "sltz t0, a0" -> PseudoInstruction(line, "sltz", <<Id("t0"), Id("a0")>>)
      [] text = "sgtz t0, a0" -> PseudoInstruction(line, "sgtz", <<Id("t0"), Id("a0")>>)
      [] text = "beqz t0, A" -> PseudoInstruction(line, "beqz", <<Id("t0"), Id("A")>>)
      [] text = "bnez t0, A" -> PseudoInstruction(line, "bnez", <<Id("t0"), Id("A")>>)
      [] text = "bgez t0, A" -> PseudoInstruction(line, "bgez", <<Id("t0"), Id("A")>>)
      [] text = "bltz t0, A" -> PseudoInstruction(line, "bltz", <<Id("t0"), Id("A")>>)
      [] text = "blez t0, A" -> PseudoInstruction(line, "blez", <<Id("t0"), Id("A")>>)
      [] text = "bgtz t0, A" -> PseudoInstruction(line, "bgtz", <<Id("t0"), Id("A")>>)
      [] text = "bgt t0, a0, A" ->
            PseudoInstruction(line, "bgt", <<Id("t0"), Id("a0"), Id("A")>>)
      [] text = "ble t0, a0, A" ->
            PseudoInstruction(line, "ble", <<Id("t0"), Id("a0"), Id("A")>>)
      [] text = "bgtu t0, a0, A" ->
            PseudoInstruction(line, "bgtu", <<Id("t0"), Id("a0"), Id("A")>>)
      [] text = "bleu t0, a0, A" ->
            PseudoInstruction(line, "bleu", <<Id("t0"), Id("a0"), Id("A")>>)
      [] text = "j A" -> PseudoInstruction(line, "j", <<Id("A")>>)
      [] text = "jr t0" -> PseudoInstruction(line, "jr", <<Id("t0")>>)
      [] text = "jalr t0" -> PseudoInstruction(line, "jalr", <<Id("t0")>>)
      [] text = "ret" -> PseudoInstruction(line, "ret", <<>>)
      [] text = "c.nop" -> CINTypeInstruction(line, "c.nop")
      [] text = "li t0, 1" -> PseudoInstruction(line, "li", <<Id("t0"), Dec(1)>>)
      [] text = "li t0, 2047" -> PseudoInstruction(line, "li", <<Id("t0"), Dec(2047)>>)
      [] text = "li t0, 2048" -> PseudoInstruction(line, "li", <<Id("t0"), Dec(2048)>>)
      [] text = "li t0, -2049" -> PseudoInstruction(line, "li", <<Id("t0"), Dec(-2049)>>)
      [] text = "li t0, 0xfffff800" ->
            PseudoInstruction(line, "li",
                <<Id("t0"), Num("hex", [q |-> 2^20 - 1, r |-> 2^11])>>)
      [] text = "li t0, B" -> PseudoInstruction(line, "li", <<Id("t0"), Id("B")>>)
      [] text = "li t0, 2054 - B" ->
            PseudoInstruction(line, "li", <<Id("t0"), Dec(2054), Id("-"), Id("B")>>)
      [] text = "jal x0, B" -> JTypeInstruction(line, "jal", Id("x0"), Offset("B"))
      [] text = "call B" -> PseudoInstruction(line, "call", <<Id("B")>>)
      [] text = "tail A" -> PseudoInstruction(line, "tail", <<Id("A")>>)
      [] text = "tail B" -> PseudoInstruction(line, "tail", <<Id("B")>>)
      [] text = "align 4" -> Align(line, 4)
      [] text = "align 8" -> Align(line, 8)
      [] text = "string a" -> String(line, Letters(1))
      [] text = "bytes 1 2" -> Sequence(line, "bytes", <<Dec(1), Dec(2)>>)
      [] text = "shorts -2" -> Sequence(line, "shorts", <<Dec(-2)>>)
      [] text = "db 255" -> ShorthandPack(line, "db", Arithmetic(<<Dec(255)>>))
      [] text = "db 256" -> ShorthandPack(line, "db", Arithmetic(<<Dec(256)>>))
      [] text = "dh A" -> ShorthandPack(line, "dh", Arithmetic(<<Id("A")>>))
      [] text = "pack <I, 5" -> Pack(line, "<I", Arithmetic(<<Dec(5)>>))
      [] text = "string a*2036" -> String(line, Letters(2036))
      [] text = "string a*2040" -> String(line, Letters(2040))
      [] text = "string a*2048" -> String(line, Letters(2048))
      [] text = "string a*2044" -> String(line, Letters(2044))

\* the programs of at most MaxItems lines written with the statements of texts
Programs(texts) ==
    UNION {{[i \in 1..n |-> Parsed(t[i], i)] : t \in [1..n -> texts]} : n \in 1..MaxItems}

ArithIdle == [value |-> W(0), bits |-> 1, done |-> {}, se |-> W(0), hi |-> W(0), lo |-> W(0)]

\* jumps and branches to labels, near and 2048 bytes away, a constant named
\* like a label, an alignment
JumpTexts ==
    {"A:", "B:", "A = 6", "jal x0, A", "jal ra, B", "jal t0, B", "jal A",
     "beq t0, x0, A", "align 4", "string a*2044"}

Init ==
    /\ arith = ArithIdle
    /\ \E prog \in Programs(JumpTexts), c \in BOOLEAN : Assemble(prog, c)

Spec == Init /\ [][Next]_vars

\* li on both sides of the 12-bit range, call and tail over a distance of
\* 2040 bytes and more, an alignment
LiTexts ==
    {"A:", "B:", "li t0, 2047", "li t0, 2048", "li t0, -2049", "li t0, 0xfffff800",
     "li t0, B", "call B", "tail B", "string a*2040", "align 8"}

LiInit ==
    /\ arith = ArithIdle
    /\ \E prog \in Programs(LiTexts), c \in BOOLEAN : Assemble(prog, c)

LiSpec == LiInit /\ [][Next]_vars

\* constants that use one another, a register and a label, constants named
\* like registers, and their uses as immediates and as registers
ConstTexts ==
    {"A = 6", "B = A", "A = B", "IP = gp", "A:", "t0 = 5", "fp = 5",
     "addi t0, t0, A", "addi t0, t0, sp", "addi IP, IP, 1", "mv IP, t0"}

ConstInit ==
    /\ arith = ArithIdle
    /\ \E prog \in Programs(ConstTexts), c \in BOOLEAN : Assemble(prog, c)

ConstSpec == ConstInit /\ [][Next]_vars

\* the pseudo-instructions that stand for one instruction, and a label
PseudoTexts ==
    {"A:", "nop", "mv t0, a0", "not t0, a0", "neg t0, a0", "seqz t0, a0",
     "snez t0, a0", "sltz t0, a0", "sgtz t0, a0", "beqz t0, A",
     "bnez t0, A", "bgez t0, A", "bltz t0, A", "blez t0, A", "bgtz t0, A",
     "bgt t0, a0, A", "ble t0, a0, A", "bgtu t0, a0, A", "bleu t0, a0, A",
     "j A", "jal A", "jr t0", "jalr t0", "ret"}

\* the programs are one line shorter than elsewhere: there are many statements
PseudoInit ==
    /\ arith = ArithIdle
    /\ \E n \in 1..(MaxItems - 1), c \in BOOLEAN :
           \E t \in [1..n -> PseudoTexts] : Assemble([i \in 1..n |-> Parsed(t[i], i)], c)

PseudoSpec == PseudoInit /\ [][Next]_vars

\* every item a size-changing pass rewrites, each in the form that shrinks and
\* in the form that does not, before a label and an alignment; the programs
\* are one line longer than elsewhere
SizeTexts ==
    {"B:", "jal x0, B", "li t0, 1", "li t0, 2048", "call B", "string a*2036", "align 8"}

SizeInit ==
    /\ arith = ArithIdle
    /\ \E n \in 1..(MaxItems + 1) :
           \E t \in [1..n -> SizeTexts] : Assemble([i \in 1..n |-> Parsed(t[i], i)], TRUE)

SizeSpec == SizeInit /\ [][Next]_vars

\* a constant and a label, their uses, and an item for every pass that may
\* write an environment: a li and a jal that shrink, a pseudo-instruction that
\* does not
FrameTexts ==
    {"A = 6", "B:", "nop", "li t0, 1", "jal x0, B", "addi t0, t0, A", "string a",
     "align 4"}

FrameInit ==
    /\ arith = ArithIdle
    /\ \E prog \in Programs(FrameTexts), c \in BOOLEAN : Assemble(prog, c)

FrameSpec == FrameInit /\ [][Next]_vars

\* li of a label and of a distance from a label, and what moves the label
\* afterwards: a li and a jal that shrink
ExprTexts ==
    {"B:", "li t0, B", "li t0, 2054 - B", "li t0, 1", "jal x0, B", "nop"}

ExprInit ==
    /\ arith = ArithIdle
    /\ \E prog \in Programs(ExprTexts), c \in BOOLEAN : Assemble(prog, c)

ExprSpec == ExprInit /\ [][Next]_vars

\* a jump back to a label 2048 bytes away, across an alignment, with a li in
\* front of the label, assembled with compression
RangeTexts ==
    {"B:", "jal x0, B", "li t0, 1", "string a*2048", "align 8"}

RangeInit ==
    /\ arith = ArithIdle
    /\ \E n \in 1..(MaxItems + 2) :
           \E t \in [1..n -> RangeTexts] : Assemble([i \in 1..n |-> Parsed(t[i], i)], TRUE)

RangeSpec == RangeInit /\ [][Next]_vars

\* every kind of item: a constant, a label, instructions, a pseudo-instruction,
\* a string, sequences, packs written short and in full, an alignment
DataTexts ==
    {"A = 6", "A:", "jal x0, A", "nop", "c.nop", "string a", "bytes 1 2", "shorts -2",
     "db 255", "db 256", "dh A", "pack <I, 5", "align 4"}

DataInit ==
    /\ arith = ArithIdle
    /\ \E prog \in Programs(DataTexts), c \in BOOLEAN : Assemble(prog, c)

DataSpec == DataInit /\ [][Next]_vars

\* jumps forward to a label about 2048 bytes away, with a li and an alignment
\* in between, assembled with compression; the programs are two lines longer
\* than elsewhere, so that a jump can follow two others that shrink
ShrinkTexts ==
    {"B:", "jal x0, B", "jal ra, B", "li t0, 1", "string a*2036", "align 8"}

ShrinkInit ==
    /\ arith = ArithIdle
    /\ \E n \in 1..(MaxItems + 2) :
           \E t \in [1..n -> ShrinkTexts] : Assemble([i \in 1..n |-> Parsed(t[i], i)], TRUE)

ShrinkSpec == ShrinkInit /\ [][Next]_vars

-----------------------------------------------------------------------------
(***************************************************************************)
(* The relocation helpers on their own: the inputs are drawn around the    *)
(* values where a bit of the 12/20/32-bit split changes, and each helper   *)
(* is applied to them.                                                     *)
(***************************************************************************)
Span == 1

MaxBits == 33

\* the numbers within Span of c
Near(c) == (c - Span)..(c + Span)

\* low limbs around 0, 0x7ff|0x800 and 0xfff
LowLimbs == {r \in Near(0) \cup Near(2^11) \cup Near(2^12 - 1) : r >= 0 /\ r < Limb}

\* high limbs around 0, 2^19 (bit 31), 2^20 (bit 32) and their negatives
HighLimbs == Near(0) \cup Near(2^19) \cup Near(2^20) \cup Near(-(2^19)) \cup Near(-(2^20))

ArithInit ==
    /\ PipeIdle
    /\ \E q \in HighLimbs, r \in LowLimbs, n \in 1..MaxBits :
           arith = [ArithIdle EXCEPT !.value = [q |-> q, r |-> r], !.bits = n]

ApplySignExtend ==
    /\ "se" \notin arith.done
    /\ arith' = [arith EXCEPT !.se = sign_extend(arith.value, arith.bits),
                              !.done = @ \cup {"se"}]
    /\ UNCHANGED pipe_vars

ApplyRelocateHi ==
    /\ "hi" \notin arith.done
    /\ arith' = [arith EXCEPT !.hi = relocate_hi(arith.value), !.done = @ \cup {"hi"}]
    /\ UNCHANGED pipe_vars

ApplyRelocateLo ==
    /\ "lo" \notin arith.done
    /\ arith' = [arith EXCEPT !.lo = relocate_lo(arith.value), !.done = @ \cup {"lo"}]
    /\ UNCHANGED pipe_vars

ArithNext == ApplySignExtend \/ ApplyRelocateHi \/ ApplyRelocateLo

ArithSpec == ArithInit /\ [][ArithNext]_vars

-----------------------------------------------------------------------------
(* Properties of the relocation helpers (ArithSpec)                        *)

Applied(fs) == fs \subseteq arith.done

\* a << 12, for a that fits one machine word
WShl12(a) == [q |-> a.q * Limb + a.r, r |-> 0]

\* value mod 2^n, by floor division
WMod(a, n) == WSub(a, IF n >= 12 THEN [q |-> (a.q \div 2^(n - 12)) * 2^(n - 12), r |-> 0]
                                 ELSE [q |-> a.q, r |-> (a.r \div 2^n) * 2^n])

TwosComplement(a, n) ==
    LET m == WMod(a, n)
    IN  IF WLt(m, WPow2(n - 1)) THEN m ELSE WSub(m, WPow2(n))

\* C8: for every 32-bit value v (0 <= v < 2^32), (relocate_hi(v) << 12) +
\* relocate_lo(v), truncated to a signed 32-bit value, equals
\* sign_extend(v, 32).
C8_HiLoSum ==
    (Applied({"hi", "lo"}) /\ arith.value.q >= 0 /\ arith.value.q < 2^20)
        => c_int32(WAdd(WShl12(arith.hi), arith.lo)) = sign_extend(arith.value, 32)

\* 0xfffff800: the low part is negative and the rounded high part wraps
C8_Witness ==
    /\ Applied({"hi", "lo"})
    /\ arith.value = [q |-> 2^20 - 1, r |-> 2^11]
    /\ arith.hi = W(0)
    /\ arith.lo = W(-2048)

\* C9: for every integer v, negative or wider than 32 bits included,
\* relocate_lo(v) lies in [-2048, 2047] and relocate_hi(v) lies in
\* [-0x80000, 0x7ffff].
C9_Ranges ==
    /\ Applied({"lo"}) => (WLe(W(-2048), arith.lo) /\ WLe(arith.lo, W(2047)))
    /\ Applied({"hi"}) => (WLe(W(-(2^19)), arith.hi) /\ WLe(arith.hi, W(2^19 - 1)))

\* a negative value wider than 32 bits: the low part sits on its lower end
\* and rounding carries the high part across the 20-bit wrap
C9_Witness ==
    /\ Applied({"hi", "lo"})
    /\ arith.value = [q |-> -(2^20) - 1, r |-> 2^11]
    /\ arith.lo = W(-2048)
    /\ arith.hi = W(0)

\* C10: for every integer value and every width n >= 1, sign_extend(value, n)
\* is (value mod 2^n) when that is below 2^(n-1) and (value mod 2^n) - 2^n
\* otherwise, and the bits of value above bit n-1 have no effect.
C10_SignExtend ==
    Applied({"se"}) =>
        /\ arith.se = TwosComplement(arith.value, arith.bits)
        /\ \A k \in {-3, -1, 1, 2} :
               arith.se = sign_extend(WAdd(arith.value,
                                    IF arith.bits >= 12
                                    THEN [q |-> k * 2^(arith.bits - 12), r |-> 0]
                                    ELSE W(k * 2^arith.bits)),
                               arith.bits)

\* a negative result from a positive value with bits set above the width
C10_Witness ==
    /\ Applied({"se"})
    /\ arith.bits = 12
    /\ arith.value = [q |-> 2^19 + 1, r |-> 2^11 + 1]
    /\ arith.se = W(-2047)

-----------------------------------------------------------------------------
(* Properties of the passes (Spec, LiSpec)                                 *)

\* the position the passes' loops hold when they reach its[i]: the sizes of
\* the items before it, added up from 0
RECURSIVE PositionOf(_, _)
PositionOf(its, i) ==
    IF i = 1 THEN 0
    ELSE LET p == PositionOf(its, i - 1) IN p + size(its[i - 1], p)

\* the bytes of the output that come from the source lines before line
RECURSIVE BytesBefore(_, _)
BytesBefore(blobs, line) ==
    IF blobs = <<>> THEN 0
    ELSE (IF Head(blobs).line < line THEN DataLen(Head(blobs).data) ELSE 0)
         + BytesBefore(Tail(blobs), line)

\* line i of the source defines a label, and no later line defines it again
DefinesLabel(i) ==
    /\ src[i].kind = "Label"
    /\ \A j \in (i + 1)..Len(src) : ~(src[j].kind = "Label" /\ src[j].name = src[i].name)

\* C1: when assemble finishes successfully, every label's recorded offset
\* equals the number of output bytes produced by the items that precede the
\* label in the source.  Stated here for assembly without compression, where
\* no 2-byte instruction is involved.
C1_LabelsAreOffsets ==
    (pc = "done" /\ ~compress) =>
        \A i \in 1..Len(src) :
            DefinesLabel(i) => labels[src[i].name] = BytesBefore(items, i)

\* C2: resolve_instructions emits exactly 4 bytes for each base instruction
\* and exactly 2 bytes for each compressed instruction, which is the value
\* size() reported for it.
C2_EmittedSize ==
    [][(pc = "instructions" /\ pc' = "strings") =>
          \A i \in 1..Len(items) :
              IsInstruction(items[i]) =>
                  /\ DataLen(items'[i].data) = size(items[i], 0)
                  /\ DataLen(items'[i].data)
                       = IF items[i].kind \in CompressedKinds THEN 2 ELSE 4]_vars

\* a branch or a jal (compressed or not) whose target is a label, written
\* bare or as %offset label: both are parsed to Offset(label)
IsLabelJump(item) ==
    /\ item.kind \in {"BTypeInstruction", "JTypeInstruction", "CJTypeInstruction"}
    /\ item.imm.op = "Offset"
    /\ item.imm.reference \in DOMAIN labels

\* resolve_immediates hands the encoder of items[i] the distance from the
\* item's own position to its target label
EncodesOffset(i) ==
    items'[i].imm = W(labels[items[i].imm.reference] - PositionOf(items, i))

\* C3, as stated: for a branch or a jal whose target is a label, the
\* immediate that is encoded equals labels[target] minus the byte position
\* of the instruction itself.
C3_OffsetOfLabel ==
    [][(pc = "immediates" /\ pc' = "instructions") =>
          \A i \in 1..Len(items) : IsLabelJump(items[i]) => EncodesOffset(i)]_vars

\* C3, amended: the same, for a target that no constant is named like (a
\* constant of the target's name is found before the label).
C3_OffsetOfLabelNoConstant ==
    [][(pc = "immediates" /\ pc' = "instructions") =>
          \A i \in 1..Len(items) :
              (IsLabelJump(items[i]) /\ items[i].imm.reference \notin DOMAIN constants)
                  => EncodesOffset(i)]_vars

\* two jumps back to a label at 0, from 0 and from 4, with no constant defined
C3_Witness ==
    /\ pc = "instructions"
    /\ constants = EmptyMap
    /\ labels = [B |-> 0]
    /\ Len(items) = 2
    /\ items[1].kind = "JTypeInstruction" /\ items[1].imm = W(0)
    /\ items[2].kind = "JTypeInstruction" /\ items[2].imm = W(-4)

\* transform_compressible is about to take a turn of its loop
CompressibleTurn == pc \in {"compress1", "compress2"} /\ idx < Len(items)

\* the turn ended normally and appended item to new_items
Appends(item) == pc' = pc /\ new_items' = Append(new_items, item)

\* v is a multiple of 2 in [-2048, 2047]
FitsCompressedJump(v) ==
    /\ v.r % 2 = 0
    /\ v.q \in {-1, 0}
    /\ v.q = -1 => v.r >= 2048
    /\ v.q = 0 => v.r <= 2047

\* C4: transform_compressible replaces a jal by c.j exactly when its rd is x0
\* and its immediate, evaluated against constants and labels at the item's
\* position, is a multiple of 2 in [-2048, 2047], by c.jal exactly when rd
\* is x1 under the same condition, and passes every other item through
\* unchanged and in the same order.  (A jal whose immediate names nothing
\* defined has no value to decide by and is left out.)
C4_Compressible ==
    [][CompressibleTurn =>
          LET item == items[idx + 1]
              env == ChainMap(constants, AsInts(labels))
          IN  IF item.kind = "JTypeInstruction" /\ item.name = "jal"
              THEN LET rd == lookup_register(item.rd)
                       imm == Eval(item.imm, position, env)
                   IN  (rd.ok /\ imm.ok) =>
                         IF rd.val = 0 /\ FitsCompressedJump(imm.val)
                         THEN Appends(CJTypeInstruction(item.line, "c.j", item.imm))
                         ELSE IF rd.val = 1 /\ FitsCompressedJump(imm.val)
                         THEN Appends(CJTypeInstruction(item.line, "c.jal", item.imm))
                         ELSE Appends(item)
              ELSE Appends(item)]_vars

\* the turn replaced the jal at hand by a 2-byte form
Replaced ==
    /\ pc' = pc
    /\ Len(new_items') = Len(new_items) + 1
    /\ items[idx + 1].kind = "JTypeInstruction"
    /\ new_items'[Len(new_items')].kind = "CJTypeInstruction"

\* C5: when transform_compressible replaces a jal at position p by a 2-byte
\* form, every label whose offset is strictly greater than p is decremented
\* by exactly 2 and every label whose offset is at most p and every constant
\* is left unchanged; when an item is not replaced, no label and no constant
\* changes.
C5_ShrinkByTwo ==
    [][CompressibleTurn =>
          /\ constants' = constants
          /\ DOMAIN labels' = DOMAIN labels
          /\ \A n \in DOMAIN labels :
                 labels'[n] = IF Replaced /\ labels[n] > position
                              THEN labels[n] - 2 ELSE labels[n]]_vars

\* after 'A: / jal ra, B / B:' the jal at 0 is c.jal: A, at 0, stays and B,
\* at 4, moves to 2
C5_Witness ==
    /\ pc = "compress1"
    /\ idx = 1
    /\ Len(new_items) = 1
    /\ new_items[1].kind = "CJTypeInstruction"
    /\ labels = [A |-> 0, B |-> 2]

\* transform_pseudo_instructions is about to take a turn of its loop
PseudoTurn == pc = "pseudo" /\ idx < Len(items)

\* v, wrapped to a signed 32-bit value, lies in [-2048, 2047]: its low 32
\* bits are at most 2047 or at least 2^32 - 2048
WrapsToSigned12(v) ==
    LET m == WMod(v, 32)
    IN  (m.q = 0 /\ m.r <= 2047) \/ (m.q = 2^20 - 1 /\ m.r >= 2048)

\* C6: transform_pseudo_instructions expands 'li rd, imm' to the single
\* instruction 'addi rd, x0, lo(imm)' exactly when imm, evaluated against
\* constants and labels at the li's position and wrapped to a signed 32-bit
\* value, lies in [-2048, 2047], and then decrements by exactly 4 every label
\* whose offset is strictly greater than the li's position and no other
\* label; otherwise it expands to 'lui rd, hi(imm)' and 'addi rd, rd,
\* lo(imm)' and changes no label.
C6_LiExpansion ==
    [][(PseudoTurn /\ items[idx + 1].kind = "PseudoInstruction"
                   /\ items[idx + 1].name = "li") =>
          LET item == items[idx + 1]
              rd == item.args[1]
              imm == parse_immediate(Tail(item.args))
              value == Eval(imm, position, ChainMap(constants, AsInts(labels)))
              single == <<ITypeInstruction(item.line, "addi", rd, Id("x0"), Lo(imm), FALSE)>>
              pair == <<UTypeInstruction(item.line, "lui", rd, Hi(imm)),
                        ITypeInstruction(item.line, "addi", rd, rd, Lo(imm), FALSE)>>
          IN  value.ok =>
                /\ pc' = pc
                /\ DOMAIN labels' = DOMAIN labels
                /\ IF WrapsToSigned12(value.val)
                   THEN /\ new_items' = new_items \o single
                        /\ \A n \in DOMAIN labels :
                               labels'[n] = IF labels[n] > position
                                            THEN labels[n] - 4 ELSE labels[n]
                   ELSE /\ new_items' = new_items \o pair
                        /\ labels' = labels]_vars

\* after 'A: / li t0, 0xfffff800 / B:' the li at 0, whose value wraps to
\* -2048, is one addi: A, at 0, stays and B, at 8, moves to 4
C6_Witness ==
    /\ pc = "pseudo"
    /\ idx = 1
    /\ Len(new_items) = 1
    /\ new_items[1].kind = "ITypeInstruction"
    /\ new_items[1].name = "addi"
    /\ new_items[1].imm = Lo(Arithmetic(<<Num("hex", [q |-> 2^20 - 1, r |-> 2^11])>>))
    /\ labels = [A |-> 0, B |-> 4]

\* items[i] is the jalr of a call or a tail
IsAuipcJump(item) == "is_auipc_jump" \in DOMAIN item /\ item.is_auipc_jump

\* C7: for every 'call L' and 'tail L' at position p with an even distance
\* labels[L] - p, the immediates of the auipc/jalr pair satisfy
\* (auipc_imm << 12) + jalr_imm = labels[L] - p, and jalr_imm is a legal
\* signed 12-bit immediate.
C7_CallTail ==
    pc = "instructions" =>
        \A i \in 2..Len(items) :
            IsAuipcJump(items[i]) =>
                LET L == src[items[i].line].args[1].s
                    p == PositionOf(items, i - 1)
                    d == labels[L] - p
                    auipc_imm == items[i - 1].imm
                    jalr_imm == items[i].imm
                IN  d % 2 = 0 =>
                      /\ WAdd(WShl12(auipc_imm), jalr_imm) = W(d)
                      /\ WLe(W(-2048), jalr_imm) /\ WLe(jalr_imm, W(2047))

-----------------------------------------------------------------------------
(***************************************************************************)
(* The encoders on their own: one instruction, its registers and its       *)
(* immediate drawn around the limits of the formats' ranges, is encoded    *)
(* as resolve_instructions does, by the encoder INSTRUCTIONS[item.name].   *)
(***************************************************************************)
\* the limits of the immediate ranges of the 32-bit formats
EncLimits == {0, -2048, 2047, -4096, 4095, -(2^19), 2^19 - 1, -(2^20), 2^20 - 1}

EncImms == {W(v) : v \in UNION {Near(c) : c \in EncLimits}}

\* registers by name, by alias and by number, and a name that is none
EncRegs == {Id("zero"), Id("x31"), W(5), Id("x32")}

EncSources == {Id("a0"), W(31)}

EncItems ==
    {ITypeInstruction(1, n, rd, rs1, imm, FALSE) :
        n \in {"addi", "xori", "jalr"}, rd \in EncRegs, rs1 \in EncSources, imm \in EncImms}
    \cup {STypeInstruction(1, n, rs1, rs2, imm) :
        n \in {"sb", "sw"}, rs1 \in EncRegs, rs2 \in EncSources, imm \in EncImms}
    \cup {BTypeInstruction(1, n, rs1, rs2, imm) :
        n \in {"beq", "bgeu"}, rs1 \in EncRegs, rs2 \in EncSources, imm \in EncImms}
    \cup {UTypeInstruction(1, n, rd, imm) :
        n \in {"lui", "auipc"}, rd \in EncRegs, imm \in EncImms}
    \cup {JTypeInstruction(1, "jal", rd, imm) : rd \in EncRegs, imm \in EncImms}

EncIdle(item) ==
    [item |-> item, done |-> FALSE, code |-> Raise("none"),
     out |-> [new_items |-> <<>>, err |-> NoErr]]

EncInit ==
    /\ PipeIdle
    /\ \E item \in EncItems : arith = EncIdle(item)

\* encode_func = INSTRUCTIONS[item.name]; code = encode_func(args of the item),
\* and what resolve_instructions makes of it, a Blob or an AssemblerError
ApplyEncoder(names) ==
    /\ ~arith.done
    /\ arith.item.name \in names
    /\ arith' = [arith EXCEPT !.code = Encode(arith.item),
                              !.out = resolve_instructions(<<arith.item>>),
                              !.done = TRUE]
    /\ UNCHANGED pipe_vars

ApplyIType == ApplyEncoder({"addi", "xori"})

ApplyIJType == ApplyEncoder({"jalr"})

ApplySType == ApplyEncoder({"sb", "sw"})

ApplyBType == ApplyEncoder({"beq", "bgeu"})

ApplyUType == ApplyEncoder({"lui", "auipc"})

ApplyJType == ApplyEncoder({"jal"})

EncNext ==
    \/ ApplyIType
    \/ ApplyIJType
    \/ ApplySType
    \/ ApplyBType
    \/ ApplyUType
    \/ ApplyJType

EncSpec == EncInit /\ [][EncNext]_vars

-----------------------------------------------------------------------------
(* Properties of the 32-bit encoders (EncSpec)                             *)

\* bits lo .. lo+n-1 of a code word
Field(code, lo, n) ==
    IF lo >= 12 THEN (code.q \div 2^(lo - 12)) % 2^n
    ELSE IF lo + n <= 12 THEN (code.r \div 2^lo) % 2^n
    ELSE (code.r \div 2^lo) + (code.q % 2^(lo + n - 12)) * 2^(12 - lo)

\* an n-bit field read as a two's complement number
Signed(v, n) == IF v >= 2^(n - 1) THEN v - 2^n ELSE v

\* the format of a mnemonic, its opcode and its funct3
Format(name) ==
    CASE name \in {"addi", "xori"} -> "I"
      [] name = "jalr" -> "JALR"
      [] name \in {"sb", "sw"} -> "S"
      [] name \in {"beq", "bgeu"} -> "B"
      [] name \in {"lui", "auipc"} -> "U"
      [] name = "jal" -> "J"

Opcode(name) ==
    CASE name = "addi" -> 19 [] name = "xori" -> 19 [] name = "jalr" -> 103
      [] name = "sb" -> 35 [] name = "sw" -> 35 [] name = "beq" -> 99
      [] name = "bgeu" -> 99 [] name = "lui" -> 55 [] name = "auipc" -> 23
      [] name = "jal" -> 111

Funct3(name) ==
    CASE name = "addi" -> 0 [] name = "xori" -> 4 [] name = "jalr" -> 0
      [] name = "sb" -> 0 [] name = "sw" -> 2 [] name = "beq" -> 0 [] name = "bgeu" -> 7

\* the immediate read back from the bit fields of a code word
DecodedImm(fmt, code) ==
    CASE fmt \in {"I", "JALR"} -> Signed(Field(code, 20, 12), 12)
      [] fmt = "S" -> Signed(Field(code, 7, 5) + Field(code, 25, 7) * 2^5, 12)
      [] fmt = "B" -> Signed(Field(code, 8, 4) * 2 + Field(code, 25, 6) * 2^5
                             + Field(code, 7, 1) * 2^11 + Field(code, 31, 1) * 2^12, 13)
      [] fmt = "U" -> Signed(Field(code, 12, 20), 20)
      [] fmt = "J" -> Signed(Field(code, 21, 10) * 2 + Field(code, 20, 1) * 2^11
                             + Field(code, 12, 8) * 2^12 + Field(code, 31, 1) * 2^20, 21)

\* the width of the signed range of a format's immediate
ImmBits(fmt) ==
    CASE fmt \in {"I", "JALR", "S"} -> 12 [] fmt = "B" -> 13 [] fmt = "U" -> 20 [] fmt = "J" -> 21

ImmFits(fmt, imm) ==
    /\ InRange(imm, -(2^(ImmBits(fmt) - 1)), 2^(ImmBits(fmt) - 1) - 1)
    /\ fmt \in {"JALR", "B", "J"} => WEven(imm)

\* the register operands of an instruction and the bit each starts at
RegFields(item) ==
    CASE Format(item.name) \in {"I", "JALR"} -> {<<item.rd, 7>>, <<item.rs1, 15>>}
      [] Format(item.name) \in {"S", "B"} -> {<<item.rs1, 15>>, <<item.rs2, 20>>}
      [] Format(item.name) \in {"U", "J"} -> {<<item.rd, 7>>}

EncDone == "item" \in DOMAIN arith /\ arith.done

-----------------------------------------------------------------------------
(***************************************************************************)
(* The compressed encoders on their own, in the same way: the immediates   *)
(* are drawn around the limits of the compressed formats' ranges, the      *)
(* registers from inside and outside x8..x15.                              *)
(***************************************************************************)
CEncLimits ==
    {0, 16, -32, 31, 63, 124, 127, 252, 255, -256, 496, -512, 511, 1020, 1023, -2048, 2047}

CEncImms == {W(v) : v \in UNION {Near(c) : c \in CEncLimits}}

CEncRegs == {Id("x0"), Id("sp"), Id("x7"), Id("s0"), W(15), Id("x16")}

CEncSources == {Id("zero"), Id("a5")}

CEncItems ==
    {CRTypeInstruction(1, n, rd_rs1, rs2) :
        n \in {"c.mv", "c.add"}, rd_rs1 \in CEncRegs, rs2 \in CEncSources}
    \cup {CRJTypeInstruction(1, n, rd_rs1) : n \in {"c.jr", "c.jalr"}, rd_rs1 \in CEncRegs}
    \cup {CITypeInstruction(1, n, rd_rs1, imm) :
        n \in {"c.addi", "c.li", "c.lui", "c.slli", "c.lwsp"},
        rd_rs1 \in CEncRegs, imm \in CEncImms}
    \cup {CIATypeInstruction(1, "c.addi16sp", imm) : imm \in CEncImms}
    \cup {CSSTypeInstruction(1, "c.swsp", rs2, imm) : rs2 \in CEncRegs, imm \in CEncImms}
    \cup {CIWTypeInstruction(1, "c.addi4spn", rd, imm) : rd \in CEncRegs, imm \in CEncImms}
    \cup {CLTypeInstruction(1, "c.lw", rd, rs1, imm) :
        rd \in CEncRegs, rs1 \in CEncSources, imm \in CEncImms}
    \cup {CSTypeInstruction(1, "c.sw", rs1, rs2, imm) :
        rs1 \in CEncRegs, rs2 \in CEncSources, imm \in CEncImms}
    \cup {CBTypeInstruction(1, n, rs1, imm) :
        n \in {"c.beqz", "c.bnez", "c.srli", "c.srai", "c.andi"},
        rs1 \in CEncRegs, imm \in CEncImms}
    \cup {CJTypeInstruction(1, n, imm) : n \in {"c.j", "c.jal"}, imm \in CEncImms}

CEncInit ==
    /\ PipeIdle
    /\ \E item \in CEncItems : arith = EncIdle(item)

ApplyCRType == ApplyEncoder({"c.mv", "c.add", "c.jr", "c.jalr"})

ApplyCIType == ApplyEncoder({"c.addi", "c.li", "c.slli"})

ApplyCIAType == ApplyEncoder({"c.addi16sp"})

ApplyCIUType == ApplyEncoder({"c.lui"})

ApplyCILType == ApplyEncoder({"c.lwsp"})

ApplyCSSType == ApplyEncoder({"c.swsp"})

ApplyCIWType == ApplyEncoder({"c.addi4spn"})

ApplyCLType == ApplyEncoder({"c.lw"})

ApplyCSType == ApplyEncoder({"c.sw"})

ApplyCBType == ApplyEncoder({"c.beqz", "c.bnez"})

ApplyCBIType == ApplyEncoder({"c.srli", "c.srai", "c.andi"})

ApplyCJType == ApplyEncoder({"c.j", "c.jal"})

CEncNext ==
    \/ ApplyCRType
    \/ ApplyCIType
    \/ ApplyCIAType
    \/ ApplyCIUType
    \/ ApplyCILType
    \/ ApplyCSSType
    \/ ApplyCIWType
    \/ ApplyCLType
    \/ ApplyCSType
    \/ ApplyCBType
    \/ ApplyCBIType
    \/ ApplyCJType

CEncSpec == CEncInit /\ [][CEncNext]_vars

-----------------------------------------------------------------------------
(* Properties of the compressed encoders (CEncSpec)                        *)

\* the range and the scale of the immediate of a compressed instruction; the
\* 6-bit immediates are taken in either reading, signed or unsigned
CImmFits(name, imm) ==
    CASE name \in {"c.beqz", "c.bnez"} -> InRange(imm, -256, 255) /\ WEven(imm)
      [] name \in {"c.srli", "c.srai", "c.andi"} -> InRange(imm, -32, 63)
      [] name \in {"c.j", "c.jal"} -> InRange(imm, -2048, 2047) /\ WEven(imm)
      [] name \in {"c.lw", "c.sw"} -> InRange(imm, 0, 127) /\ ToInt(imm) % 4 = 0
      [] name \in {"c.lwsp", "c.swsp"} -> InRange(imm, 0, 255) /\ ToInt(imm) % 4 = 0
      [] name = "c.addi4spn" -> InRange(imm, 0, 1023) /\ ToInt(imm) % 4 = 0
      [] name = "c.addi16sp" -> InRange(imm, -512, 511) /\ ToInt(imm) % 16 = 0
      [] OTHER -> InRange(imm, -32, 31)

\* C12: every compressed encoder rejects an immediate that is outside the
\* range of its encoding or that is no multiple of its scale (c.beqz/c.bnez:
\* signed 9 bits, even; c.srli/c.srai/c.andi: 6 bits; c.j/c.jal: signed 12
\* bits, even; c.lw/c.sw: 0..127 by 4; c.lwsp/c.swsp: 0..255 by 4;
\* c.addi4spn: 0..1023 by 4; c.addi16sp: -512..511 by 16): no such immediate
\* is ever encoded.
C12_CompressedRanges ==
    (EncDone /\ "imm" \in DOMAIN arith.item /\ ~CImmFits(arith.item.name, arith.item.imm))
        => ~arith.code.ok

\* the compressed (3-bit) register operands of an instruction and the bit each
\* starts at
CompressedRegFields(item) ==
    CASE item.name = "c.lw" -> {<<item.rd, 2>>, <<item.rs1, 7>>}
      [] item.name = "c.sw" -> {<<item.rs2, 2>>, <<item.rs1, 7>>}
      [] item.name = "c.addi4spn" -> {<<item.rd, 2>>}
      [] item.name \in {"c.beqz", "c.bnez", "c.srli", "c.srai", "c.andi"} -> {<<item.rs1, 7>>}
      [] OTHER -> {}

\* the number of a register operand, -1 for a name that is no register
RegNumber(reg) == IF lookup_register(reg).ok THEN lookup_register(reg).val ELSE -1

\* one of the constraints of a compressed instruction is violated
ConstraintViolated(item) ==
    \/ /\ item.name \in {"c.addi", "c.slli", "c.addi16sp", "c.addi4spn", "c.srli",
                         "c.srai", "c.lui"}
       /\ item.imm = W(0)
    \/ item.name = "c.lui" /\ RegNumber(item.rd_rs1) \in {0, 2}
    \/ /\ item.name \in {"c.addi", "c.li", "c.slli", "c.lwsp", "c.jr", "c.jalr"}
       /\ RegNumber(item.rd_rs1) = 0
    \/ item.name \in {"c.mv", "c.add"} /\ RegNumber(item.rs2) = 0
    \/ \E f \in CompressedRegFields(item) : RegNumber(f[1]) \notin 8..15

\* C13: encoding a compressed instruction fails, and resolve_instructions
\* reports an AssemblerError, whenever a constraint is violated: immediate 0
\* for c.addi, c.slli, c.addi16sp, c.addi4spn, c.srli, c.srai, c.lui; rd x0 or
\* x2 for c.lui; rd/rs1 x0 for c.addi, c.li, c.slli, c.lwsp, c.jr, c.jalr; rs2
\* x0 for c.mv, c.add; a register outside x8..x15 in a 3-bit register field.
\* A register that is accepted in such a field is stored as its number - 8.
C13_Constraints ==
    EncDone =>
        /\ ConstraintViolated(arith.item) =>
               /\ arith.code = Raise("ValueError")
               /\ arith.out = [new_items |-> <<>>, err |-> Exc("AssemblerError", arith.item.line)]
        /\ arith.code.ok =>
               \A f \in CompressedRegFields(arith.item) :
                   Field(arith.code.val, f[2], 3) = RegNumber(f[1]) - 8

\* c.lui sp, 1: the immediate and the register are valid, the constraint fails
C13_Witness ==
    /\ EncDone
    /\ arith.item.name = "c.lui"
    /\ arith.item.rd_rs1 = Id("sp")
    /\ arith.item.imm = W(1)
    /\ arith.code = Raise("ValueError")
    /\ arith.out.err = Exc("AssemblerError", 1)

-----------------------------------------------------------------------------
(* Properties of the constants (ConstSpec)                                 *)

IsConstant(item) == item.kind = "Constant"

\* the name a definition refers to, "" for a definition by a literal
Referred(item) == IF item.expr.expr[1].t = "id" THEN item.expr.expr[1].s ELSE ""

\* the definitions of name before line i
EarlierDefs(its, i, name) == {j \in 1..(i - 1) : IsConstant(its[j]) /\ its[j].name = name}

\* a definition that can be evaluated where it stands: by a literal, by a
\* constant defined before it, or by a register name
Resolvable(its, i) ==
    \/ Referred(its[i]) = ""
    \/ EarlierDefs(its, i, Referred(its[i])) # {}
    \/ Referred(its[i]) \in DOMAIN REGISTER_NAMES

\* the value of the definition at line i, all definitions up to it being good
RECURSIVE DefValue(_, _)
DefValue(its, i) ==
    LET name == Referred(its[i])
        defs == EarlierDefs(its, i, name)
    IN  IF name = "" THEN its[i].expr.expr[1].val
        ELSE IF defs # {} THEN DefValue(its, CHOOSE j \in defs : \A k \in defs : k <= j)
        ELSE W(REGISTER_NAMES[name])

\* the definitions resolve_constants cannot accept
BadDefs(its) ==
    {i \in 1..Len(its) :
        IsConstant(its[i]) /\ (its[i].name \in DOMAIN REGISTER_NAMES \/ ~Resolvable(its, i))}

NotConstant(item) == ~IsConstant(item)

\* C14: resolve_constants takes the definitions in source order and evaluates
\* each with the constants bound so far and the register table only: a
\* definition may use earlier constants and register names, one that refers
\* to a label or to a constant defined later fails with AssemblerError, each
\* good definition binds constants[name] to its value, and the list returned
\* holds no Constant and every other item in its place.
C14_ResolveConstants ==
    [][pc = "constants" =>
          IF BadDefs(items) = {}
          THEN /\ pc' = "labels"
               /\ items' = SelectSeq(items, NotConstant)
               /\ DOMAIN constants' = {items[i].name : i \in {j \in 1..Len(items) : IsConstant(items[j])}}
               /\ \A i \in 1..Len(items) :
                      (IsConstant(items[i]) /\ EarlierDefs(items, Len(items) + 1, items[i].name) \subseteq 1..i)
                          => constants'[items[i].name] = DefValue(items, i)
          ELSE /\ pc' = "failed"
               /\ err' = Exc("AssemblerError",
                             items[CHOOSE i \in BadDefs(items) : \A j \in BadDefs(items) : i <= j].line)
      ]_vars

\* A = 6, B = A and a use: B is bound to 6 and only the instruction is left
C14_Witness ==
    /\ pc = "labels"
    /\ Len(src) = 3
    /\ src[2] = Parsed("B = A", 2)
    /\ DOMAIN constants = {"A", "B"}
    /\ constants["B"] = W(6)
    /\ items = <<src[3]>>
    /\ ~IsConstant(src[3])

\* C15: a definition whose name is a register name or alias makes
\* resolve_constants fail with an AssemblerError carrying its line; the name
\* is not bound and nothing is output.
C15_RegisterShadow ==
    /\ [][(pc = "constants" /\ \E i \in 1..Len(items) :
               /\ IsConstant(items[i]) /\ items[i].name \in DOMAIN REGISTER_NAMES
               /\ \A j \in 1..(i - 1) : j \notin BadDefs(items))
          => \E i \in BadDefs(items) :
               /\ pc' = "failed"
               /\ err' = Exc("AssemblerError", items[i].line)
               /\ items[i].name \notin DOMAIN constants'
               /\ program' = <<>>]_vars
    /\ [](pc = "failed" => program = <<>>)

\* fp = 5 after a good definition: line 2 is reported, A stays bound alone
C15_Witness ==
    /\ pc = "failed"
    /\ Len(src) >= 2
    /\ src[1] = Parsed("A = 6", 1)
    /\ src[2] = Parsed("fp = 5", 2)
    /\ err = Exc("AssemblerError", 2)
    /\ DOMAIN constants = {"A"}
    /\ program = <<>>

\* the lines that use IP, the constant bound to gp, as a register
UsesAlias(item) ==
    \/ item = Parsed("addi IP, IP, 1", item.line)
    \/ item = Parsed("mv IP, t0", item.line)

\* the bytes of the same line written with gp: addi gp, gp, 1 and
\* mv gp, t0 (addi gp, t0, 0)
WithRegister(item) ==
    IF item.kind = "PseudoInstruction"
    THEN packI(i_type(Id("gp"), Id("t0"), W(0), 19, 0).val)
    ELSE packI(i_type(Id("gp"), Id("gp"), W(1), 19, 0).val)

RECURSIVE WithRegisters(_)
WithRegisters(its) ==
    IF its = <<>> THEN <<>> ELSE WithRegister(Head(its)) \o WithRegisters(Tail(its))

\* C16: a constant bound to a register (IP = gp) can be written wherever a
\* register is expected and assembles to the same bytes as the register, in
\* the register fields of instructions and in the register operands of
\* pseudo-instructions such as mv alike.
C16_RegisterAlias ==
    (/\ pc \in {"done", "failed"}
     /\ src[1] = Parsed("IP = gp", 1)
     /\ \A i \in 2..Len(src) : UsesAlias(src[i]))
        => (pc = "done" /\ program = WithRegisters(Tail(src)))

\* the name an immediate consists of, "" for any other immediate
ImmName(item) ==
    IF /\ "imm" \in DOMAIN item
       /\ item.imm.op = "Arithmetic"
       /\ Len(item.imm.expr) = 1
       /\ item.imm.expr[1].t = "id"
    THEN item.imm.expr[1].s ELSE ""

\* a name looked up in the constants, then the labels, then the registers
Lookup(name) ==
    IF name \in DOMAIN constants THEN constants[name]
    ELSE IF name \in DOMAIN labels THEN W(labels[name])
    ELSE W(REGISTER_NAMES[name])

\* C17: when an immediate is evaluated, a name is looked up in the constants
\* first, then in the labels, then in the register table: a name that is a
\* constant and a label has the constant's value, and a register name has
\* its register's index instead of being unknown.
C17_LookupOrder ==
    [][(/\ pc = "immediates"
        /\ \A i \in 1..Len(items) :
               ImmName(items[i]) \in {""} \cup DOMAIN constants \cup DOMAIN labels
                                      \cup DOMAIN REGISTER_NAMES)
          => /\ pc' = "instructions"
             /\ \A i \in 1..Len(items) :
                    ImmName(items[i]) # "" => items'[i].imm = Lookup(ImmName(items[i]))
      ]_vars

-----------------------------------------------------------------------------
(* Properties of the alignment (LiSpec)                                    *)

IsAlign(item) == item.kind = "Align"

\* the blobs of a list that come from source line l
OfLine(blobs, l) == SelectSeq(blobs, LAMBDA b : b.line = l)

\* C18: an `align N` reached when p bytes have been emitted before it yields
\* exactly (N - p mod N) mod N zero bytes, no item at all when p is a multiple
\* of N already, and the item after it starts at a multiple of N.
C18_AlignPadding ==
    [][pc = "aligns" =>
          /\ pc' = "blobs"
          /\ SelectSeq(items', LAMBDA b : \A i \in 1..Len(items) :
                                   IsAlign(items[i]) => items[i].line # b.line)
                 = SelectSeq(items, LAMBDA b : ~IsAlign(b))
          /\ \A i \in 1..Len(items) :
                 IsAlign(items[i]) =>
                     LET N == items[i].alignment
                         l == items[i].line
                         p == BytesBefore(items', l)
                         pad == (N - (p % N)) % N
                     IN  /\ OfLine(items', l) =
                                IF pad = 0 THEN <<>> ELSE <<Blob(l, <<[b |-> 0, n |-> pad]>>)>>
                         /\ BytesBefore(items', l + 1) % N = 0
      ]_vars

\* li t0, 2047 is 4 bytes: the align 8 after it pads 4, the next one nothing
C18_Witness ==
    /\ pc = "blobs"
    /\ Len(src) = 3
    /\ src[1] = Parsed("li t0, 2047", 1)
    /\ src[2] = Parsed("align 8", 2)
    /\ src[3] = Parsed("align 8", 3)
    /\ Len(items) = 2
    /\ items[2] = Blob(2, <<[b |-> 0, n |-> 4]>>)

-----------------------------------------------------------------------------
(* Properties of the references to names (Spec)                            *)

\* the name a line refers to: the target of a jump or a branch, the operand
\* of a pseudo jump, "" for a line that refers to none
ReferredName(item) ==
    IF "imm" \in DOMAIN item /\ item.imm.op = "Offset" THEN item.imm.reference
    ELSE IF item.kind = "PseudoInstruction" /\ item.name \in {"jal", "j"} THEN item.args[1].s
    ELSE ""

\* the names the source defines, as labels or as constants
DefinedNames == {src[i].name : i \in {j \in 1..Len(src) : src[j].kind \in {"Label", "Constant"}}}

\* the lines that refer to a name the source does not define
UndefinedRefs ==
    {i \in 1..Len(src) : ReferredName(src[i]) \notin {""} \cup DefinedNames}

\* C19: a reference to a name that is defined nowhere (in an arithmetic
\* expression, in a %position or %offset reference, as a bare label target)
\* makes assemble fail with an AssemblerError that carries the line; no raw
\* KeyError escapes.  Stated for assembly without compression, where the
\* failure of a compressed pseudo jump does not interfere.
C19_UndefinedName ==
    (pc \in {"done", "failed"} /\ ~compress /\ UndefinedRefs # {})
        => (pc = "failed" /\ err.exc = "AssemblerError" /\ err.line \in UndefinedRefs)

-----------------------------------------------------------------------------
(* Properties of the pseudo-instructions (PseudoSpec)                      *)

\* the immediate n of the expansion table
Literal(n) == Arithmetic(<<Dec(n)>>)

\* the expansion table: the instruction a pseudo-instruction stands for, with
\* rs, rt its register operands and L its label operand
Expansion(item) ==
    LET n == item.name
        l == item.line
        a == item.args
        zero == Id("x0")
        ra == Id("x1")
    IN  CASE n = "nop" -> ITypeInstruction(l, "addi", zero, zero, Literal(0), FALSE)
          [] n = "mv" -> ITypeInstruction(l, "addi", a[1], a[2], Literal(0), FALSE)
          [] n = "not" -> ITypeInstruction(l, "xori", a[1], a[2], Literal(-1), FALSE)
          [] n = "seqz" -> ITypeInstruction(l, "sltiu", a[1], a[2], Literal(1), FALSE)
          [] n = "jr" -> ITypeInstruction(l, "jalr", zero, a[1], Literal(0), FALSE)
          [] n = "jalr" -> ITypeInstruction(l, "jalr", ra, a[1], Literal(0), FALSE)
          [] n = "ret" -> ITypeInstruction(l, "jalr", zero, ra, Literal(0), FALSE)
          [] n = "neg" -> RTypeInstruction(l, "sub", a[1], zero, a[2])
          [] n = "snez" -> RTypeInstruction(l, "sltu", a[1], zero, a[2])
          [] n = "sltz" -> RTypeInstruction(l, "slt", a[1], a[2], zero)
          [] n = "sgtz" -> RTypeInstruction(l, "slt", a[1], zero, a[2])
          [] n \in {"beqz", "bnez", "bgez", "bltz"} ->
                BTypeInstruction(l, [beqz |-> "beq", bnez |-> "bne", bgez |-> "bge",
                                     bltz |-> "blt"][n], a[1], zero, Offset(a[2].s))
          [] n \in {"blez", "bgtz"} ->
                BTypeInstruction(l, [blez |-> "bge", bgtz |-> "blt"][n],
                                 zero, a[1], Offset(a[2].s))
          [] n \in {"bgt", "ble", "bgtu", "bleu"} ->
                BTypeInstruction(l, [bgt |-> "blt", ble |-> "bge", bgtu |-> "bltu",
                                     bleu |-> "bgeu"][n], a[2], a[1], Offset(a[3].s))
          [] n = "j" -> JTypeInstruction(l, "jal", zero, Offset(a[1].s))
          [] n = "jal" -> JTypeInstruction(l, "jal", ra, Offset(a[1].s))

\* C20: every pseudo-instruction other than li, call and tail expands to
\* exactly one instruction of 4 bytes, with the mnemonic and the operands of
\* the expansion table (bgt/ble/bgtu/bleu rs, rt with rs1 = rt and rs2 = rs;
\* a label operand becomes Offset(label)), so that no position changes.
C20_PseudoExpansion ==
    [][(PseudoTurn /\ items[idx + 1].kind = "PseudoInstruction"
                   /\ items[idx + 1].name \notin {"li", "call", "tail"}) =>
          /\ pc' = pc
          /\ new_items' = Append(new_items, Expansion(items[idx + 1]))
          /\ size(Expansion(items[idx + 1]), position) = 4
          /\ position' = position + size(items[idx + 1], position)
          /\ labels' = labels]_vars

\* bgt t0, a0, A has become blt a0, t0, %offset A
C20_Witness ==
    /\ pc = "pseudo"
    /\ idx = 1
    /\ items[1] = Parsed("bgt t0, a0, A", 1)
    /\ new_items = <<BTypeInstruction(1, "blt", Id("a0"), Id("t0"), Offset("A"))>>
    /\ position = 4

-----------------------------------------------------------------------------
(* Properties of the schedule of the size-changing passes (ShrinkSpec)     *)

\* the loop of the second transform_compressible has consumed every item:
\* items is the list it was given, new_items the list it returns
AfterSecondPass == pc = "compress2" /\ idx = Len(items)

\* new_items[i] is a jal the pass left in place, with rd x0 or x1, whose
\* immediate at its position in new_items and with the labels as they are
\* now is a multiple of 2 in [-2048, 2047]
RemainingFits(i) ==
    /\ new_items[i].kind = "JTypeInstruction"
    /\ new_items[i].name = "jal"
    /\ LET rd == lookup_register(new_items[i].rd)
           imm == Eval(new_items[i].imm, PositionOf(new_items, i),
                       ChainMap(constants, AsInts(labels)))
       IN  rd.ok /\ rd.val \in {0, 1} /\ imm.ok /\ FitsCompressedJump(imm.val)

\* the second pass replaced a jal after the i-th item
ReplacedLater(i) ==
    \E j \in (i + 1)..Len(new_items) :
        items[j].kind = "JTypeInstruction" /\ new_items[j].kind = "CJTypeInstruction"

\* C21, as stated: with compression enabled, the two passes of
\* transform_compressible end where repeating the pass would end: after the
\* second pass no remaining jal with rd x0 or x1 has an immediate that, at
\* its current position and with the current labels, is a multiple of 2 in
\* [-2048, 2047].
C21_FixedPoint ==
    AfterSecondPass => \A i \in 1..Len(new_items) : ~RemainingFits(i)

\* C21, amended: after the second pass a remaining jal with rd x0 or x1
\* whose immediate fits the compressed range is followed by a jal that the
\* second pass replaced (the replacement moved the labels after the pass had
\* gone by the remaining jal).
C21_FixedPointUnlessReplacedLater ==
    AfterSecondPass =>
        \A i \in 1..Len(new_items) : RemainingFits(i) => ReplacedLater(i)

\* 'jal x0, B / jal x0, B / li t0, 1 / string a*2036 / B:': the second pass
\* finds B at 2048, leaves the first jal, replaces the second, and B ends at
\* 2046
C21_Witness ==
    /\ AfterSecondPass
    /\ Len(new_items) = 4
    /\ RemainingFits(1)
    /\ ReplacedLater(1)
    /\ labels = [B |-> 2046]

-----------------------------------------------------------------------------
(* Properties of the last pass (DataSpec)                                  *)

\* the number of runs of bytes in the blobs before blobs[i]
RECURSIVE RunsBefore(_, _)
RunsBefore(blobs, i) ==
    IF i = 1 THEN 0 ELSE RunsBefore(blobs, i - 1) + Len(blobs[i - 1].data)

\* out is the bytes of the blobs in item order, with nothing added
IsConcatenation(out, blobs) ==
    /\ Len(out) = RunsBefore(blobs, Len(blobs) + 1)
    /\ \A i \in 1..Len(blobs) :
           \A k \in 1..Len(blobs[i].data) :
               out[RunsBefore(blobs, i) + k] = blobs[i].data[k]

\* C22: for every program that passes all earlier passes, the item list
\* handed to resolve_blobs contains only Blob items, so resolve_blobs does not
\* raise, and the output is the concatenation of the blobs' bytes in item
\* order with nothing added.
C22_OnlyBlobs ==
    [][pc = "blobs" =>
          /\ \A i \in 1..Len(items) : items[i].kind = "Blob"
          /\ pc' = "done"
          /\ IsConcatenation(program', items)]_vars

\* 'string a / bytes 1 2 / align 4': three blobs, the letter, the two bytes
\* and one byte of padding, and the four bytes of the output
C22_Witness ==
    /\ pc = "done"
    /\ Len(items) = 3
    /\ program = <<[b |-> 97, n |-> 1], [b |-> 1, n |-> 1], [b |-> 2, n |-> 1],
                   [b |-> 0, n |-> 1]>>

-----------------------------------------------------------------------------
(* Properties of the encoders pinned by the tests (EncSpec)                *)

\* C25: JALR encodes every immediate in [-0x800, 0x7ff], odd values such as
\* 1, -1 and 0x7ff included, by placing the low 12 bits of the immediate in
\* bits 31:20 of the instruction word.
C25_JalrOddImmediates ==
    (/\ EncDone
     /\ arith.item.name = "jalr"
     /\ lookup_register(arith.item.rd).ok
     /\ lookup_register(arith.item.rs1).ok
     /\ WLe(W(-2048), arith.item.imm) /\ WLe(arith.item.imm, W(2047))) =>
        /\ arith.code.ok
        /\ Field(arith.code.val, 20, 12) = ToInt(WLowBits(arith.item.imm, 12))

-----------------------------------------------------------------------------
(***************************************************************************)
(* parse_item on the tokens of a branch or a jal.  A line is its tokens:   *)
(* the mnemonic, the registers and the target, which is a name or an       *)
(* integer literal in one of the notations int(s, base=0) reads.           *)
(***************************************************************************)
\* is_int: int(value) succeeds, which reads decimal digits only
is_int(value) == value.t = "num" /\ value.form = "dec"

B_TYPE_INSTRUCTIONS == {"beq", "bne", "blt", "bge", "bltu", "bgeu"}

J_TYPE_INSTRUCTIONS == {"jal"}

\* the immediate of a branch or a jal with the target reference
TargetImmediate(reference) ==
    IF is_int(reference) THEN parse_immediate(<<reference>>)
    ELSE parse_immediate(<<Id("%offset"), reference>>)

\* parse_item, for a line whose first token is the name of a branch or jal
parse_item(line, tokens) ==
    LET head == tokens[1].s
    IN  IF head \in B_TYPE_INSTRUCTIONS
        THEN IF Len(tokens) # 4 THEN Raise("AssemblerError")
             ELSE Ok(BTypeInstruction(line, head, tokens[2], tokens[3],
                                      TargetImmediate(tokens[4])))
        ELSE IF Len(tokens) = 2 THEN Ok(PseudoInstruction(line, head, Tail(tokens)))
             ELSE IF Len(tokens) # 3 THEN Raise("AssemblerError")
             ELSE Ok(JTypeInstruction(line, head, tokens[2], TargetImmediate(tokens[3])))

\* targets: a label, decimal literals, and 16 written in hex, binary and octal
ParseTargets ==
    {Id("A"), Dec(12), Dec(-8), Num("hex", W(16)), Num("bin", W(16)), Num("oct", W(16))}

\* the lines: every branch and jal with each target, the one-operand jal,
\* and lines with an operand missing or one too many
ParseLines ==
    {<<Id(n), Id("t0"), rs2, ref>> :
        n \in B_TYPE_INSTRUCTIONS, rs2 \in {Id("x0"), Id("a0")}, ref \in ParseTargets}
    \cup {<<Id("jal"), rd, ref>> : rd \in {Id("x0"), Id("ra"), Id("t0")}, ref \in ParseTargets}
    \cup {<<Id("jal"), ref>> : ref \in ParseTargets}
    \cup {<<Id("beq"), Id("t0"), ref>> : ref \in ParseTargets}
    \cup {<<Id("jal"), Id("x0"), Id("t0"), ref>> : ref \in ParseTargets}

\* the source 'A:' followed by one of the lines, lexed and not yet parsed
ParseInit ==
    /\ PipeIdle
    /\ \E tokens \in ParseLines, c \in BOOLEAN : arith = [tokens |-> tokens, compress |-> c]

\* assemble(source, compress): the lines are parsed and handed to the passes,
\* or parse_item raises
ParseItems ==
    /\ pc = "idle"
    /\ LET item == parse_item(2, arith.tokens)
           prog == <<Parsed("A:", 1), item.val>>
       IN  IF item.ok
           THEN /\ pc' = "constants" /\ src' = prog /\ items' = prog
                /\ compress' = arith.compress
                /\ UNCHANGED <<arith, new_items, idx, position, constants,
                               labels, program, err>>
           ELSE /\ pc' = "failed" /\ err' = Exc(item.exc, 2)
                /\ UNCHANGED <<arith, src, compress, items, new_items, idx,
                               position, constants, labels, program>>

ParseNext == ParseItems \/ Next

ParseSpec == ParseInit /\ [][ParseNext]_vars

\* C23: for b-type instructions and the two-operand jal, a target that is an
\* integer literal in any base-0 form (decimal, hex 0x.., binary 0b.., octal
\* 0o..) is parsed as a literal immediate, and only a target that is not an
\* integer literal is wrapped in Offset(label).
C23_LiteralTargets ==
    (Len(src) = 2 /\ src[2].kind \in {"BTypeInstruction", "JTypeInstruction"}) =>
        LET reference == arith.tokens[Len(arith.tokens)]
        IN  src[2].imm = IF reference.t = "num" THEN Arithmetic(<<reference>>)
                         ELSE Offset(reference.s)

-----------------------------------------------------------------------------
(***************************************************************************)
(* The two ways in: cli_main, where the command line gives the input file  *)
(* and the --compress flag, and assemble called as a function with the     *)
(* keyword compress (as the tests call it).                                *)
(***************************************************************************)
\* a jump, a pseudo jump, li, a constant, data, an alignment
CliTexts ==
    {"B:", "A = 6", "jal x0, B", "j B", "li t0, B", "nop", "string a", "align 4"}

\* args = parser.parse_args(), or the arguments of the call of assemble
CliInit ==
    /\ PipeIdle
    /\ \E prog \in Programs(CliTexts), flag \in BOOLEAN, entry \in {"cli_main", "assemble"} :
           arith = [entry |-> entry, input_asm |-> prog, compress |-> flag]

\* binary = assemble(args.input_asm, args.compress): the second positional
\* parameter of assemble is constants, and compress keeps its default, False;
\* in assemble, constants = constants or {}
CliMain ==
    /\ pc = "idle"
    /\ arith.entry = "cli_main"
    /\ pc' = "constants"
    /\ src' = arith.input_asm
    /\ items' = arith.input_asm
    /\ compress' = FALSE
    /\ constants' = IF arith.compress THEN PyTrue ELSE EmptyMap
    /\ UNCHANGED <<arith, new_items, idx, position, labels, program, err>>

\* assemble(source, compress=flag)
CallAssemble ==
    /\ pc = "idle"
    /\ arith.entry = "assemble"
    /\ pc' = "constants"
    /\ src' = arith.input_asm
    /\ items' = arith.input_asm
    /\ compress' = arith.compress
    /\ UNCHANGED <<arith, new_items, idx, position, constants, labels, program, err>>

CliNext == CliMain \/ CallAssemble \/ Next

CliSpec == CliInit /\ [][CliNext]_vars

\* C24: when the command line is invoked with --compress, assemble runs with
\* compression enabled, so that both transform_compressible passes execute;
\* without the flag compression is disabled and no jal is replaced.
C24_CompressFlag ==
    (pc # "idle" /\ arith.entry = "cli_main") =>
        /\ compress = arith.compress
        /\ ~arith.compress =>
               \A i \in 1..Len(items) : items[i].kind # "CJTypeInstruction"

-----------------------------------------------------------------------------
(* Properties of the size-changing passes (SizeSpec, PseudoSpec)           *)

\* a pass that changes sizes is running
SizeChanging == pc \in {"compress1", "pseudo", "compress2"}

\* the pass returns: items is the list it was given, new_items the list it built
Returns == SizeChanging /\ idx = Len(items) /\ pc' # pc

\* the index in new_items of the first item made from items[i]:
\* transform_compressible makes one item of each item, and
\* transform_pseudo_instructions one or two, which carry the line of the
\* pseudo-instruction
FirstMadeFrom(i) ==
    IF pc = "pseudo"
    THEN 1 + Cardinality({k \in 1..Len(new_items) : new_items[k].line < items[i].line})
    ELSE i

\* C26: each size-changing pass (transform_compressible,
\* transform_pseudo_instructions) only shrinks: no step of such a pass
\* increases a label's offset or makes it negative, and when the pass returns,
\* the byte position of every item (the sizes of the items before it,
\* alignment padding included) is not larger than the position of the item it
\* was made from, nor the whole list longer in bytes.
C26_OnlyShrinks ==
    [][/\ SizeChanging =>
             \A n \in DOMAIN labels : labels'[n] <= labels[n] /\ labels'[n] >= 0
       /\ Returns =>
             /\ \A i \in 1..Len(items) :
                    PositionOf(new_items, FirstMadeFrom(i)) <= PositionOf(items, i)
             /\ PositionOf(new_items, Len(new_items) + 1)
                    <= PositionOf(items, Len(items) + 1)]_vars

\* 'li t0, 1 / align 8 / jal x0, B / B:' when transform_pseudo_instructions
\* returns: the li at 0 is 4 bytes instead of 8, the padding 4 instead of 0,
\* the c.j stays at 8, and B has moved from 10 to 6
C26_Witness ==
    /\ pc = "pseudo"
    /\ idx = Len(items)
    /\ Len(items) = 3
    /\ items[1].kind = "PseudoInstruction"
    /\ items[2].kind = "Align"
    /\ PositionOf(items, 3) = 8
    /\ PositionOf(new_items, 3) = 8
    /\ labels = [B |-> 6]

\* the pass at hand may write the labels: resolve_labels,
\* transform_compressible, and transform_pseudo_instructions at a li
WritesLabels ==
    \/ pc \in {"labels", "compress1", "compress2"}
    \/ /\ pc = "pseudo"
       /\ idx < Len(items)
       /\ items[idx + 1].kind = "PseudoInstruction"
       /\ items[idx + 1].name = "li"

\* C27: the constants environment is written only by resolve_constants, and
\* the labels environment only by resolve_labels, transform_compressible and
\* the li branch of transform_pseudo_instructions; every other pass leaves
\* both unchanged, so the label offsets are stable from the end of the last
\* size-changing pass onward; and a pass builds a new list: the list it was
\* given, and the parsed list the first pass was given, keep their items.
C27_Frame ==
    [][/\ constants' # constants => pc = "constants"
       /\ labels' # labels => WritesLabels
       /\ pc' = pc => items' = items
       /\ src' = src]_vars

\* 'A = 6 / li t0, 1 / B:' after resolve_immediates: the constant is as
\* resolve_constants left it, the label as the li left it
C27_Witness ==
    /\ pc = "instructions"
    /\ constants = [A |-> [q |-> 0, r |-> 6]]
    /\ labels = [B |-> 4]
    /\ Len(src) = 3
    /\ Len(items) = 1

\* the program uses the one-operand form of jal or j
UsesPseudoJump ==
    \E i \in 1..Len(src) :
        /\ src[i].kind = "PseudoInstruction"
        /\ src[i].name \in {"jal", "j"}

\* C28: with compression enabled, a program that uses the one-operand forms
\* `jal L` or `j L` does not end in an internal error about the items the
\* first compression pass reads: the pass hands an un-expanded
\* pseudo-instruction on without reading a field it does not have.
C28_PseudoJumpsCompress ==
    (compress /\ UsesPseudoJump) =>
        ~(pc = "failed" /\ err.exc = "AttributeError")

\* the li of line l names a label in its immediate
LiOfLabel(l) ==
    /\ src[l].kind = "PseudoInstruction"
    /\ src[l].name = "li"
    /\ \E k \in 2..Len(src[l].args) : TokText(src[l].args[k]) \in DOMAIN labels

\* the value the instructions made from line l load, their immediates
\* resolved: the addi's, added to the lui's shifted by 12 when there is one
LoadedBy(l) ==
    LET made == SelectSeq(items, LAMBDA it : it.line = l)
    IN  IF Len(made) = 1 THEN made[1].imm
        ELSE WAdd(WShl12(made[1].imm), made[2].imm)

\* C29: for every `li rd, imm` whose immediate references a label, the
\* instruction or instructions finally encoded load a value congruent modulo
\* 2^32 to the immediate evaluated with the final label offsets; so a li that
\* became a single addi still has a final value inside [-2048, 2047] after the
\* shrinks that moved the labels it references.
C29_LiOfLabel ==
    pc = "instructions" =>
        \A l \in 1..Len(src) :
            LiOfLabel(l) =>
                LET imm == parse_immediate(Tail(src[l].args))
                    value == Eval(imm, 0, ChainMap(constants, AsInts(labels)))
                IN  WMod(LoadedBy(l), 32) = WMod(value.val, 32)

\* C30: every jal that transform_compressible replaced by c.j or c.jal still
\* has, when its immediate is finally resolved, an offset that is a multiple
\* of 2 in [-2048, 2047]: shrinks that happen after the decision, and the
\* alignment padding they change, do not take the jump out of range.
C30_CompressedJumpInRange ==
    pc = "instructions" =>
        \A i \in 1..Len(items) :
            items[i].kind = "CJTypeInstruction" => FitsCompressedJump(items[i].imm)

====
